---- MODULE Spec2Model ----
(***************************************************************************)
(* Keyboard controller of xk6-browser (common/keyboard.go): the modifier   *)
(* mask, the pressed-key set and the protocol commands dispatched by       *)
(* down, up, insertText, comboPress, press and typ.                        *)
(*                                                                         *)
(* src/common/keyboard.go holds two revisions of the controller: the       *)
(* earlier one (lines 1-290) and the later one (lines 292-676).  The       *)
(* variable revision says which one a behaviour runs (1 = earlier,         *)
(* 2 = later); it never changes.                                           *)
(*                                                                         *)
(* The helpers of the same package (common/helpers.go, and its later       *)
(* revision kept as unnamed/part_000) are modelled next to it:             *)
(* waitForEvent with its listener goroutine, k6Throw, convertArgument and  *)
(* the frame manager's handling of an aborted navigation.  Each has its    *)
(* own variables and its own specification; the variables of the other     *)
(* parts stay at their initial values.                                     *)
(*                                                                         *)
(* A Go string is a sequence of runes (one-character strings) wherever it  *)
(* is iterated (split, typ) and a TLA+ string where it is a key token.     *)
(***************************************************************************)
EXTENDS Integers, Sequences, FiniteSets, TLC

VARIABLES
    revision,     \* 1: keyboard.go lines 1-290, 2: keyboard.go lines 292-676
    modifiers,    \* Keyboard.modifiers
    pressedKeys,  \* Keyboard.pressedKeys: the key codes present in the map
    cancelled,    \* k.ctx is done
    pc,           \* position of the running operation
    op,           \* the running operation
    keys,         \* comboPress: the keys argument; typ: the text argument (runes)
    kk,           \* comboPress / split: the segments
    idx,          \* comboPress: loop index (0-based); typ: index of the current rune
    delay,        \* opts.Delay, while it is still to be read
    err,          \* the error the operation returns
    calls,        \* the down / up / insertText calls of the running operation
    fresh,        \* the operation started with no modifier and no pressed key
    lastDown      \* per modifier: its most recent valid down/up call was a down

\* waitForEvent and the goroutine of createWaitForEventHandler
VARIABLES
    predicateFn,  \* the predicateFn argument: NoPredicate or the set of payloads it accepts
    ctxDone,      \* the caller's ctx is done
    evCancelCtx,  \* evCancelCtx is done (TRUE) or live (FALSE)
    timerFired,   \* the channel of time.After(timeout) holds its value
    wpc,          \* position of waitForEvent
    wcase,        \* the case its select statement took
    lpc,          \* position of the listener goroutine
    sending,      \* the value the listener is sending on ch
    chClosed,     \* ch is closed
    published,    \* the events the listener received from chEvHandler, in order
    wval,         \* waitForEvent: the value returned
    werr          \* waitForEvent: the error returned

\* the frame manager and one subscriber of its navigation events
VARIABLES
    pendingDocument,  \* per frame of FrameManager.frames: Frame.pendingDocument
    navEvents,        \* the NavigationEvents emitted, in order
    fmpc,             \* position of the frame manager's handler
    fmCall            \* the arguments of the frameAbortedNavigation call

\* k6Throw
VARIABLES
    helpersRevision,  \* 1: common/helpers.go, 2: unnamed/part_000
    k6ThrowOnce,      \* the sync.Once of helpers.go: "fresh", "running" or "done"
    tpc,              \* per flow: its position in k6Throw
    targ,             \* per flow: what its ctx holds and what os.FindProcess gives
    kills,            \* the p.Kill() calls executed
    throwCalls        \* the k6Throw calls made

\* convertArgument
VARIABLES
    gojaArg,          \* the arg argument, a goja.Value
    execCtx,          \* the execCtx argument
    objHandle,        \* the BaseJSHandle the argument exports, if it is a handle
    cpc,              \* position of convertArgument
    callArgument,     \* the *cdpruntime.CallArgument returned
    cerr              \* the error returned

\* callApiWithTimeout (common/helpers.go lines 101-126)
VARIABLES
    apiTimeout,       \* the timeout argument
    ctxErr,           \* ctx.Err() of the caller's ctx
    apiCtxErr,        \* apiCtx.Err()
    apc,              \* position of callApiWithTimeout
    acase,            \* the case its select statement took
    fnpc,             \* position of the goroutine running fn
    delivery,         \* what fn sends: on which channel, and the value
    aresult,          \* callApiWithTimeout: the result returned
    aerr              \* callApiWithTimeout: the error returned

kbVars == <<revision, modifiers, pressedKeys, cancelled, pc, op, keys, kk, idx,
            delay, err, calls, fresh, lastDown>>

waitVars == <<predicateFn, ctxDone, evCancelCtx, timerFired, wpc, wcase, lpc,
              sending, chClosed, published, wval, werr>>

frameVars == <<pendingDocument, navEvents, fmpc, fmCall>>

throwVars == <<helpersRevision, k6ThrowOnce, tpc, targ, kills, throwCalls>>

convVars == <<gojaArg, execCtx, objHandle, cpc, callArgument, cerr>>

apiVars == <<apiTimeout, ctxErr, apiCtxErr, apc, acase, fnpc, delivery, aresult, aerr>>

helperVars == <<waitVars, frameVars, throwVars, convVars, apiVars>>

\* everything but the variables of one part
notWaitVars == <<kbVars, frameVars, throwVars, convVars, apiVars>>
notFrameVars == <<kbVars, waitVars, throwVars, convVars, apiVars>>
notThrowVars == <<kbVars, waitVars, frameVars, convVars, apiVars>>
notConvVars == <<kbVars, waitVars, frameVars, throwVars, apiVars>>
notApiVars == <<kbVars, waitVars, frameVars, throwVars, convVars>>

vars == <<kbVars, helperVars>>

(***************************************************************************)
(* Bounds                                                                  *)
(***************************************************************************)
MaxSegments == 2    \* segments of a combo string
MaxText == 2        \* runes of a typed text
MaxSplitLen == 4    \* runes of a string given to split alone

(***************************************************************************)
(* Modifier bits                                                           *)
(***************************************************************************)
ModifierKeyAlt == 1
ModifierKeyControl == 2
ModifierKeyMeta == 4
ModifierKeyShift == 8

\* m & b, for b a single bit or 0
BitAnd(m, b) == IF b # 0 /\ (m \div b) % 2 = 1 THEN b ELSE 0
\* m | b
BitOr(m, b) == m + b - BitAnd(m, b)
\* m & ^b
BitAndNot(m, b) == m - BitAnd(m, b)

ModifierNames == {"Alt", "Control", "Meta", "Shift"}

(***************************************************************************)
(* The "us" keyboard layout (package keyboardlayout): the entries the      *)
(* model uses.  No two entries share a Key or a ShiftKey.                  *)
(***************************************************************************)
KD(key, shiftKey, keyCode, shiftKeyCode, location, text) ==
    [Key |-> key, ShiftKey |-> shiftKey, KeyCode |-> keyCode,
     ShiftKeyCode |-> shiftKeyCode, Location |-> location, Text |-> text]

\* the zero value of keyboardlayout.KeyDefinition
ZeroKeyDefinition == KD("", "", 0, 0, 0, "")

layoutKeys ==
    ("AltLeft"     :> KD("Alt", "", 18, 0, 1, "")) @@
    ("ControlLeft" :> KD("Control", "", 17, 0, 1, "")) @@
    ("MetaLeft"    :> KD("Meta", "", 91, 0, 1, "")) @@
    ("ShiftLeft"   :> KD("Shift", "", 16, 0, 1, "")) @@
    ("KeyA"        :> KD("a", "A", 65, 0, 0, "")) @@
    ("Digit2"      :> KD("2", "@", 50, 0, 0, "")) @@
    ("Numpad1"     :> KD("End", "1", 35, 97, 3, ""))

layoutValidKeys ==
    DOMAIN layoutKeys
    \cup {layoutKeys[c].Key : c \in DOMAIN layoutKeys}
    \cup {layoutKeys[c].ShiftKey : c \in {d \in DOMAIN layoutKeys : layoutKeys[d].ShiftKey # ""}}

\* KeyboardLayout.KeyDefinition: the entry whose Key is key, and whether there is one
layoutKeyDefinition(key) ==
    LET found == {c \in DOMAIN layoutKeys : layoutKeys[c].Key = key}
    IN  IF found = {} THEN [def |-> ZeroKeyDefinition, code |-> key, ok |-> FALSE]
        ELSE LET c == CHOOSE c \in found : TRUE
             IN  [def |-> layoutKeys[c], code |-> c, ok |-> TRUE]

\* KeyboardLayout.ShiftKeyDefinition: the entry whose ShiftKey is key
layoutShiftKeyDefinition(key) ==
    LET found == {c \in DOMAIN layoutKeys : layoutKeys[c].ShiftKey = key}
    IN  IF found = {} THEN [def |-> ZeroKeyDefinition, code |-> key, ok |-> FALSE]
        ELSE LET c == CHOOSE c \in found : TRUE
             IN  [def |-> layoutKeys[c], code |-> c, ok |-> TRUE]

(***************************************************************************)
(* Key-definition resolution                                               *)
(***************************************************************************)
isKeyX(key) ==
    key \in {"KeyA", "KeyB", "KeyC", "KeyD", "KeyE", "KeyF", "KeyG", "KeyH",
             "KeyI", "KeyJ", "KeyK", "KeyL", "KeyM", "KeyN", "KeyO", "KeyP",
             "KeyQ", "KeyR", "KeyS", "KeyT", "KeyU", "KeyV", "KeyW", "KeyX",
             "KeyY", "KeyZ"}

modifierBitFromKeyName(key) ==
    CASE key = "Alt"     -> ModifierKeyAlt
      [] key = "Control" -> ModifierKeyControl
      [] key = "Meta"    -> ModifierKeyMeta
      [] key = "Shift"   -> ModifierKeyShift
      [] OTHER           -> 0

\* The resolved definition: Key, KeyCode, Code, Location, Text.
KeyDef(key, keyCode, code, location, text) ==
    [Key |-> key, KeyCode |-> keyCode, Code |-> code, Location |-> location,
     Text |-> text]

\* What the lookups find: the entry, the code it is stored under, and ok,
\* which is false when only the shift layer was left to search.
Found(def, code, ok) == [def |-> def, code |-> code, ok |-> ok]

\* lines 485-493 (later) and 146-155 (earlier): the search by shift value
lookupShift(key, byShift) == Found(byShift.def, byShift.code, FALSE)

\* lines 481-484 (later) and 136-144 (earlier): the search by key value
lookupValue(key, byKey) ==
    IF byKey.ok THEN Found(byKey.def, byKey.code, TRUE)
    ELSE lookupShift(key, layoutShiftKeyDefinition(key))

\* lines 480 (later) and 134 (earlier): the direct lookup, then the searches
lookup(key) ==
    IF key \in DOMAIN layoutKeys THEN Found(layoutKeys[key], key, TRUE)
    ELSE lookupValue(key, layoutKeyDefinition(key))

\* mutant: the shift is the held one also for a token of the shift layer
shiftOf_heldOnly(found) == BitAnd(modifiers, ModifierKeyShift)

\* lines 477, 491 (later) and 146, 154 (earlier): the shift the resolution uses
shiftOf(found) ==
    IF found.ok THEN BitAnd(modifiers, ModifierKeyShift)
    ELSE BitOr(modifiers, ModifierKeyShift)

\* mutant: the text is kept while Alt, Control or Meta is held
suppressText_never(text) == text

\* lines 532-535 (later) and 188-191 (earlier)
suppressText(text) ==
    IF BitAndNot(modifiers, ModifierKeyShift) # 0 THEN "" ELSE text

\* lines 499-501, 514-516 (later) and 179-184 (earlier): Text before the shift rule
baseText(src) ==
    IF src.Text # "" THEN src.Text
    ELSE IF Len(src.Key) = 1 THEN src.Key ELSE ""

\* mutant: under shift the ShiftKeyCode wins
layeredKeyCode_shiftFirst(src, shift) ==
    IF shift # 0 /\ src.ShiftKeyCode # 0 THEN src.ShiftKeyCode ELSE src.KeyCode

\* lines 502-507 (later) and 164-172 (earlier): KeyCode wins over ShiftKeyCode
layeredKeyCode(src, shift) ==
    IF src.KeyCode # 0 THEN src.KeyCode
    ELSE IF shift # 0 THEN src.ShiftKeyCode ELSE 0

\* the fields layered into the definition; sub: the shift value is substituted
layeredKeyDef(code, src, shift, sub) ==
    KeyDef(IF sub THEN src.ShiftKey ELSE src.Key,
           layeredKeyCode(src, shift),
           code,
           src.Location,
           suppressText(IF sub THEN src.ShiftKey ELSE baseText(src)))

\* mutant: the shift value is substituted for every key that has one
shiftSubstitution_anyKey(key, found, shift) ==
    shift # 0 /\ found.def.ShiftKey # ""

\* mutant: the letter test looks at the entry found, not at the token
shiftSubstitution_letterEntry(key, found, shift) ==
    (isKeyX(found.code) \/ ~found.ok) /\ shift # 0 /\ found.def.ShiftKey # ""

\* lines 525-527: isKeyXOrOnShiftLayerAndShiftUsed
shiftSubstitution(key, found, shift) ==
    (isKeyX(key) \/ ~found.ok) /\ shift # 0 /\ found.def.ShiftKey # ""

\* lines 161 and 185 of the earlier revision
shiftSubstitutionEarlier(found, shift) ==
    shift # 0 /\ found.def.ShiftKey # ""

keyDefinitionWithShift(key, found, shift) ==
    \* lines 508-510: Code is the requested token
    layeredKeyDef(key, found.def, shift, shiftSubstitution(key, found, shift))

keyDefinitionFound(key, found) == keyDefinitionWithShift(key, found, shiftOf(found))

\* Keyboard.keyDefinitionFromKey, later revision (lines 476-537)
keyDefinitionFromKey(key) == keyDefinitionFound(key, lookup(key))

keyDefinitionWithShiftEarlier(found, shift) ==
    \* lines 141, 152, 173-175: Code is the code of the entry found
    layeredKeyDef(found.code, found.def, shift, shiftSubstitutionEarlier(found, shift))

keyDefinitionFoundEarlier(found) == keyDefinitionWithShiftEarlier(found, shiftOf(found))

\* Keyboard.keyDefinitionFromKey, earlier revision (lines 132-193)
keyDefinitionFromKeyEarlier(keyString) == keyDefinitionFoundEarlier(lookup(keyString))

(***************************************************************************)
(* Protocol commands and the record of a call                              *)
(***************************************************************************)
\* input.DispatchKeyEvent(type).With...: the fields the command carries
Cmd(type, mods, keyDef, text, autoRepeat) ==
    [type |-> type, modifiers |-> mods, key |-> keyDef.Key,
     keyCode |-> keyDef.KeyCode, code |-> keyDef.Code,
     location |-> keyDef.Location, isKeypad |-> (keyDef.Location = 3),
     text |-> text, unmodifiedText |-> text, autoRepeat |-> autoRepeat]

NoCmd == Cmd("none", 0, KeyDef("", 0, "", 0, ""), "", FALSE)

\* One call of down, up or insertText: its argument, the error it returned,
\* whether it dispatched a command, and the command.
Call(fn, arg, e, sent, cmd) ==
    [fn |-> fn, arg |-> arg, err |-> e, sent |-> sent, cmd |-> cmd]

\* What a call leaves behind: the error, the keyboard state, the call record.
Effect(e, mods, pressed, call) ==
    [err |-> e, modifiers |-> mods, pressedKeys |-> pressed, call |-> call]

\* the error of action.Do, wrapped
dispatchError(dispatchErr) == IF dispatchErr THEN "Dispatch" ELSE "nil"

(***************************************************************************)
(* down, up, insertText.  dispatchErr: action.Do returns an error.         *)
(***************************************************************************)
\* mutant: the key is taken for valid whatever the layout says
isValidKey_always(key) == TRUE

\* lines 412-413, 446-447 (later) and 66-68, 101-103 (earlier)
isValidKey(key) == key \in layoutValidKeys

\* lines 414, 448 (later) and 69, 104 (earlier): nothing is touched, nothing is sent
invalidKey(fn, key) ==
    Effect("InvalidKey", modifiers, pressedKeys,
           Call(fn, key, "InvalidKey", FALSE, NoCmd))

\* mutant: autoRepeat is read after the key code was inserted
downAutoRepeat_afterInsert(keyDef) == keyDef.KeyCode \in (pressedKeys \cup {keyDef.KeyCode})

\* line 420 (later) and 75 (earlier): _, autoRepeat := k.pressedKeys[keyDef.KeyCode]
downAutoRepeat(keyDef) == keyDef.KeyCode \in pressedKeys

\* lines 423-426 (later) and 78-81 (earlier)
downKeyType(text) == IF text = "" THEN "rawKeyDown" ELSE "keyDown"

\* lines 419-442 (later) and 74-97 (earlier): the rest of down, with the
\* modifiers already updated to mods
downDispatch(key, e, keyDef, mods) ==
    Effect(e, mods, pressedKeys \cup {keyDef.KeyCode},
           Call("down", key, e, TRUE,
                Cmd(downKeyType(keyDef.Text), mods, keyDef, keyDef.Text,
                    downAutoRepeat(keyDef))))

\* mutant: down clears the modifier bit
downModifiers_cleared(keyDef) ==
    BitAndNot(modifiers, modifierBitFromKeyName(keyDef.Key))

\* line 418: k.modifiers |= k.modifierBitFromKeyName(keyDef.Key)
downModifiers(keyDef) ==
    BitOr(modifiers, modifierBitFromKeyName(keyDef.Key))

\* line 73 of the earlier revision: k.modifiers &= ^k.modifierBitFromKeyName(keyDef.Key)
downModifiersEarlier(keyDef) ==
    BitAndNot(modifiers, modifierBitFromKeyName(keyDef.Key))

downResolved(key, e, keyDef) == downDispatch(key, e, keyDef, downModifiers(keyDef))

\* Keyboard.down, later revision (lines 411-443)
down(key, dispatchErr) ==
    IF ~isValidKey(key) THEN invalidKey("down", key)
    ELSE downResolved(key, dispatchError(dispatchErr), keyDefinitionFromKey(key))

downResolvedEarlier(key, e, keyDef) ==
    downDispatch(key, e, keyDef, downModifiersEarlier(keyDef))

\* Keyboard.down, earlier revision (lines 65-98)
downEarlier(key, dispatchErr) ==
    IF ~isValidKey(key) THEN invalidKey("down", key)
    ELSE downResolvedEarlier(key, dispatchError(dispatchErr),
                             keyDefinitionFromKeyEarlier(key))

\* lines 452, 455-463 (later) and 108, 111-119 (earlier)
upModifiers(keyDef) ==
    BitAndNot(modifiers, modifierBitFromKeyName(keyDef.Key))

\* line 453 (later) and 109 (earlier): delete(k.pressedKeys, keyDef.KeyCode)
upPressedKeys(keyDef) == pressedKeys \ {keyDef.KeyCode}

upDispatch(key, e, keyDef, mods) ==
    Effect(e, mods, upPressedKeys(keyDef),
           Call("up", key, e, TRUE, Cmd("keyUp", mods, keyDef, "", FALSE)))

upResolved(key, e, keyDef) == upDispatch(key, e, keyDef, upModifiers(keyDef))

\* Keyboard.up, later revision (lines 445-466)
up(key, dispatchErr) ==
    IF ~isValidKey(key) THEN invalidKey("up", key)
    ELSE upResolved(key, dispatchError(dispatchErr), keyDefinitionFromKey(key))

\* Keyboard.up, earlier revision (lines 100-122)
upEarlier(key, dispatchErr) ==
    IF ~isValidKey(key) THEN invalidKey("up", key)
    ELSE upResolved(key, dispatchError(dispatchErr), keyDefinitionFromKeyEarlier(key))

insertTextDispatch(text, e) ==
    Effect(e, modifiers, pressedKeys,
           Call("insertText", text, e, TRUE,
                Cmd("insertText", 0, KeyDef("", 0, "", 0, ""), text, FALSE)))

\* Keyboard.insertText (lines 124-130 and 468-474)
insertText(text, dispatchErr) == insertTextDispatch(text, dispatchError(dispatchErr))

\* the revision's down and up
kbDown(key, dispatchErr) ==
    IF revision = 1 THEN downEarlier(key, dispatchErr) ELSE down(key, dispatchErr)

kbUp(key, dispatchErr) ==
    IF revision = 1 THEN upEarlier(key, dispatchErr) ELSE up(key, dispatchErr)

(***************************************************************************)
(* Bookkeeping of the modifier a token denotes (read off the layout).      *)
(***************************************************************************)
TokenModifier(key) ==
    LET e == IF key \in DOMAIN layoutKeys THEN layoutKeys[key]
             ELSE layoutKeyDefinition(key).def
    IN  IF e.Key \in ModifierNames THEN e.Key ELSE ""

NoteCall(fn, key) ==
    IF key \in layoutValidKeys /\ TokenModifier(key) # ""
    THEN [lastDown EXCEPT ![TokenModifier(key)] = (fn = "down")]
    ELSE lastDown

\* The keyboard and the call log after a call with effect r.
Apply(r) ==
    /\ modifiers' = r.modifiers
    /\ pressedKeys' = r.pressedKeys
    /\ calls' = Append(calls, r.call)

(***************************************************************************)
(* Strings as rune sequences                                               *)
(***************************************************************************)
RECURSIVE Str(_)
\* the string a rune sequence spells
Str(runes) == IF runes = <<>> THEN "" ELSE Head(runes) \o Str(Tail(runes))

RECURSIVE JoinPlus(_)
\* strings.Join(segments, "+")
JoinPlus(segments) ==
    IF Len(segments) = 1 THEN segments[1]
    ELSE segments[1] \o <<"+">> \o JoinPlus(Tail(segments))

RECURSIVE splitPlainFrom(_, _, _, _)
splitPlainFrom(ks, i, s, acc) ==
    IF i > Len(ks) THEN Append(acc, s)
    ELSE IF ks[i] = "+"
         THEN splitPlainFrom(ks, i + 1, <<>>, Append(acc, s))
         ELSE splitPlainFrom(ks, i + 1, Append(s, ks[i]), acc)

\* mutant: every '+' separates, as strings.Split(keys, "+") does
split_everyPlus(ks) == splitPlainFrom(ks, 1, <<>>, <<>>)

RECURSIVE splitFrom(_, _, _, _)
\* the loop of split (lines 625-632) from rune i on: s is the builder, acc is kk
splitFrom(ks, i, s, acc) ==
    IF i > Len(ks) THEN Append(acc, s)
    ELSE IF ks[i] = "+" /\ Len(s) > 0
         THEN splitFrom(ks, i + 1, <<>>, Append(acc, s))
         ELSE splitFrom(ks, i + 1, Append(s, ks[i]), acc)

\* split (lines 620-636)
split(ks) == splitFrom(ks, 1, <<>>, <<>>)

(***************************************************************************)
(* Inputs                                                                  *)
(***************************************************************************)
\* a rune outside the layout (U+00E9, e with acute accent)
OtherRune == "U+00E9"

\* keys given to Down and Up
KeyInputs == {"Shift", "Control", "Alt", "Meta", "a", "KeyA", "2", "@", OtherRune}

\* segments the combo strings are joined from
ComboTokens ==
    {<<"S", "h", "i", "f", "t">>, <<"a">>, <<"K", "e", "y", "A">>, <<"2">>,
     <<"@">>, <<"N", "u", "m", "p", "a", "d", "1">>, <<>>}

ComboInputs ==
    {JoinPlus(ts) : ts \in UNION {[1..n -> ComboTokens] : n \in 1..MaxSegments}}

TypRunes == {"a", "@", OtherRune}

TypInputs == UNION {[1..n -> TypRunes] : n \in 0..MaxText}

SplitRunes == {"+", "a", "b"}

SplitInputs == UNION {[1..n -> SplitRunes] : n \in 0..MaxSplitLen}

Delays == {0, 1}

(***************************************************************************)
(* Initial state: NewKeyboard (lines 55-63 and 351-359), nothing running   *)
(***************************************************************************)
(***************************************************************************)
(* The helpers before any of them is called                                *)
(***************************************************************************)
\* predicateFn == nil; a predicate that is given accepts a set of payloads
NoPredicate == [nil |-> TRUE, accepts |-> {}]
Nil == "nil"            \* the nil interface value

\* no waitForEvent call has been made
WaitIdle ==
    /\ predicateFn = NoPredicate
    /\ ctxDone = FALSE
    /\ evCancelCtx = FALSE
    /\ timerFired = FALSE
    /\ wpc = "idle"
    /\ wcase = "none"
    /\ lpc = "none"
    /\ sending = Nil
    /\ chClosed = FALSE
    /\ published = <<>>
    /\ wval = Nil
    /\ werr = "nil"

\* the frame manager holds its frames, none of them navigating
Frames == {"42", "43"}

FrameIdle ==
    /\ pendingDocument = [f \in Frames |-> Nil]
    /\ navEvents = <<>>
    /\ fmpc = "idle"
    /\ fmCall = Nil

\* the flows that can call k6Throw
MaxFlows == 2
Flows == 1..MaxFlows

ThrowIdle ==
    /\ helpersRevision = 1
    /\ k6ThrowOnce = "fresh"
    /\ tpc = [f \in Flows |-> "idle"]
    /\ targ = [f \in Flows |-> Nil]
    /\ kills = 0
    /\ throwCalls = 0

\* a nil *cdpruntime.CallArgument, and the argument that exports no handle
NoCallArgument == [isNil |-> TRUE]
NoHandle == [isNil |-> TRUE]

ConvIdle ==
    /\ gojaArg = [type |-> "none"]
    /\ execCtx = Nil
    /\ objHandle = NoHandle
    /\ cpc = "idle"
    /\ callArgument = NoCallArgument
    /\ cerr = "nil"

\* what fn sends before it has sent anything
NoDelivery == [kind |-> "none", val |-> Nil]

\* callApiWithTimeout is not running and the caller's ctx is live
ApiIdle ==
    /\ apiTimeout = 0
    /\ ctxErr = "nil"
    /\ apiCtxErr = "nil"
    /\ apc = "idle"
    /\ acase = "none"
    /\ fnpc = "idle"
    /\ delivery = NoDelivery
    /\ aresult = Nil
    /\ aerr = "nil"

HelpersIdle == WaitIdle /\ FrameIdle /\ ThrowIdle /\ ConvIdle /\ ApiIdle

(***************************************************************************)
(* The keyboard                                                            *)
(***************************************************************************)
\* a new keyboard of the later revision on which nothing was called
KeyboardIdle ==
    /\ revision = 2
    /\ modifiers = 0
    /\ pressedKeys = {}
    /\ cancelled = FALSE
    /\ pc = "idle"
    /\ op = "none"
    /\ keys = <<>>
    /\ kk = <<>>
    /\ idx = 0
    /\ delay = 0
    /\ err = "nil"
    /\ calls = <<>>
    /\ fresh = TRUE
    /\ lastDown = [m \in {"Alt", "Control", "Meta", "Shift"} |-> FALSE]

Init ==
    /\ revision \in {1, 2}
    /\ modifiers = 0
    /\ pressedKeys = {}
    /\ cancelled = FALSE
    /\ pc = "idle"
    /\ op = "none"
    /\ keys = <<>>
    /\ kk = <<>>
    /\ idx = 0
    /\ delay = 0
    /\ err = "nil"
    /\ calls = <<>>
    /\ fresh = TRUE
    /\ lastDown = [m \in ModifierNames |-> FALSE]
    /\ HelpersIdle

IsFresh == modifiers = 0 /\ pressedKeys = {}

(***************************************************************************)
(* Down and Up called on their own                                         *)
(***************************************************************************)
Down(key, dispatchErr) ==
    /\ pc = "idle"
    /\ LET r == kbDown(key, dispatchErr)
       IN  Apply(r) /\ err' = r.err
    /\ lastDown' = NoteCall("down", key)
    /\ pc' = "done"
    /\ op' = "down"
    /\ fresh' = IsFresh
    /\ UNCHANGED <<helperVars, revision, cancelled, keys, kk, idx, delay>>

Up(key, dispatchErr) ==
    /\ pc = "idle"
    /\ LET r == kbUp(key, dispatchErr)
       IN  Apply(r) /\ err' = r.err
    /\ lastDown' = NoteCall("up", key)
    /\ pc' = "done"
    /\ op' = "up"
    /\ fresh' = IsFresh
    /\ UNCHANGED <<helperVars, revision, cancelled, keys, kk, idx, delay>>

(***************************************************************************)
(* comboPress (lines 586-614), later revision only                         *)
(***************************************************************************)
ComboPressStart(ks, d) ==
    /\ pc = "idle"
    /\ revision = 2
    /\ op' = "comboPress"
    /\ keys' = ks
    /\ delay' = 0    \* opts.Delay is read here (line 587) and never again
    /\ fresh' = IsFresh
    /\ idx' = 0
    /\ err' = "nil"
    /\ IF d # 0
       THEN pc' = "comboDelay" /\ kk' = <<>>
       ELSE pc' = "comboDown" /\ kk' = split(ks)
    /\ UNCHANGED <<helperVars, revision, modifiers, pressedKeys, cancelled, calls, lastDown>>

\* line 595: the timer fires before the context is done
ComboDelayElapsed ==
    /\ pc = "comboDelay"
    /\ ~cancelled
    /\ pc' = "comboDown"
    /\ kk' = split(keys)
    /\ UNCHANGED <<helperVars, revision, modifiers, pressedKeys, cancelled, op, keys, idx,
                   delay, err, calls, fresh, lastDown>>

\* mutant: the timer is stopped and the combo goes on, as press does
comboCancelled_goesOn == [pc |-> "comboDown", err |-> "nil"]

\* lines 590-594: t.Stop() and return context.Canceled
comboCancelled == [pc |-> "done", err |-> "Canceled"]

\* lines 590-594: the context is done while the timer has not fired
ComboDelayCancelled ==
    /\ pc = "comboDelay"
    /\ cancelled
    /\ pc' = comboCancelled.pc
    /\ err' = comboCancelled.err
    /\ kk' = IF comboCancelled.pc = "done" THEN kk ELSE split(keys)
    /\ UNCHANGED <<helperVars, revision, modifiers, pressedKeys, cancelled, op, keys,
                   idx, delay, calls, fresh, lastDown>>

\* lines 600-604: one iteration of the down loop
ComboDown(dispatchErr) ==
    /\ pc = "comboDown"
    /\ LET key == Str(kk[idx + 1])
           r == down(key, dispatchErr)
       IN  /\ Apply(r)
           /\ lastDown' = NoteCall("down", key)
           /\ IF r.err # "nil"
              THEN pc' = "done" /\ err' = r.err /\ idx' = idx
              ELSE /\ err' = err
                   /\ IF idx + 1 < Len(kk)
                      THEN pc' = "comboDown" /\ idx' = idx + 1
                      ELSE pc' = "comboUp" /\ idx' = 0
    /\ UNCHANGED <<helperVars, revision, cancelled, op, keys, kk, delay, fresh>>

\* mutant: the keys are released in the order they were pressed
comboUpKey_forward(i) == kk[i + 1]

\* line 607: key := kk[len(kk)-i-1]
comboUpKey(i) == kk[(Len(kk) - i - 1) + 1]

\* lines 606-611: one iteration of the up loop
ComboUp(dispatchErr) ==
    /\ pc = "comboUp"
    /\ LET key == Str(comboUpKey(idx))
           r == up(key, dispatchErr)
       IN  /\ Apply(r)
           /\ lastDown' = NoteCall("up", key)
           /\ IF r.err # "nil"
              THEN pc' = "done" /\ err' = r.err /\ idx' = idx
              ELSE /\ err' = err
                   /\ IF idx + 1 < Len(kk)
                      THEN pc' = "comboUp" /\ idx' = idx + 1
                      ELSE pc' = "done" /\ idx' = idx + 1
    /\ UNCHANGED <<helperVars, revision, cancelled, op, keys, kk, delay, fresh>>

(***************************************************************************)
(* typ (lines 224-247 and 653-676) and the press it calls (lines 209-222   *)
(* and 638-651)                                                            *)
(***************************************************************************)
\* the rune of the current iteration
typRune == keys[idx + 1]

\* mutant: every rune is pressed as a key
typIsValidKey_always(c) == TRUE

\* lines 664-665: _, ok := layout.ValidKeys[keyInput]
typIsValidKey(c) == c \in layoutValidKeys

TypStart(text, d) ==
    /\ pc = "idle"
    /\ op' = "typ"
    /\ keys' = text
    /\ delay' = d
    /\ fresh' = IsFresh
    /\ idx' = 0
    /\ err' = "nil"
    /\ pc' = IF Len(text) = 0 THEN "done"
             ELSE IF d # 0 THEN "typDelay" ELSE "typChar"
    /\ UNCHANGED <<helperVars, revision, modifiers, pressedKeys, cancelled, kk, calls, lastDown>>

\* lines 656-663: the timer fires or the context is done; either way the loop goes on
TypDelay ==
    /\ pc = "typDelay"
    /\ pc' = "typChar"
    /\ UNCHANGED <<helperVars, revision, modifiers, pressedKeys, cancelled, op, keys, kk,
                   idx, delay, err, calls, fresh, lastDown>>

\* lines 665-666: the rune is a valid key, press is called
TypPress ==
    /\ pc = "typChar"
    /\ typIsValidKey(typRune)
    /\ pc' = IF delay # 0 THEN "pressDelay" ELSE "pressDown"
    /\ UNCHANGED <<helperVars, revision, modifiers, pressedKeys, cancelled, op, keys, kk,
                   idx, delay, err, calls, fresh, lastDown>>

\* the state after the iteration of rune idx ended without error
TypAdvance ==
    /\ idx' = idx + 1
    /\ err' = err
    /\ pc' = IF idx + 1 >= Len(keys) THEN "done"
             ELSE IF delay # 0 THEN "typDelay" ELSE "typChar"

\* lines 671-673: insertText for a rune that is no valid key
TypInsertText(dispatchErr) ==
    /\ pc = "typChar"
    /\ ~typIsValidKey(typRune)
    /\ LET r == insertText(typRune, dispatchErr)
       IN  /\ Apply(r)
           /\ IF r.err # "nil"
              THEN pc' = "done" /\ err' = r.err /\ idx' = idx
              ELSE TypAdvance
    /\ UNCHANGED <<helperVars, revision, cancelled, op, keys, kk, delay, fresh, lastDown>>

\* lines 639-646: the timer fires or the context is done; either way press goes on
PressDelay ==
    /\ pc = "pressDelay"
    /\ pc' = "pressDown"
    /\ UNCHANGED <<helperVars, revision, modifiers, pressedKeys, cancelled, op, keys, kk,
                   idx, delay, err, calls, fresh, lastDown>>

\* lines 647-649
PressDown(dispatchErr) ==
    /\ pc = "pressDown"
    /\ LET r == kbDown(typRune, dispatchErr)
       IN  /\ Apply(r)
           /\ lastDown' = NoteCall("down", typRune)
           /\ IF r.err # "nil"
              THEN pc' = "done" /\ err' = r.err
              ELSE pc' = "pressUp" /\ err' = err
    /\ UNCHANGED <<helperVars, revision, cancelled, op, keys, kk, idx, delay, fresh>>

\* line 650
PressUp(dispatchErr) ==
    /\ pc = "pressUp"
    /\ LET r == kbUp(typRune, dispatchErr)
       IN  /\ Apply(r)
           /\ lastDown' = NoteCall("up", typRune)
           /\ IF r.err # "nil"
              THEN pc' = "done" /\ err' = r.err /\ idx' = idx
              ELSE TypAdvance
    /\ UNCHANGED <<helperVars, revision, cancelled, op, keys, kk, delay, fresh>>

(***************************************************************************)
(* The context and the end of an operation                                 *)
(***************************************************************************)
\* the keyboard's context is cancelled
Cancel ==
    /\ ~cancelled
    /\ cancelled' = TRUE
    /\ UNCHANGED <<helperVars, revision, modifiers, pressedKeys, pc, op, keys, kk, idx,
                   delay, err, calls, fresh, lastDown>>

\* the operation has returned; the keyboard keeps its state
Return ==
    /\ pc = "done"
    /\ pc' = "idle"
    /\ op' = "none"
    /\ keys' = <<>>
    /\ kk' = <<>>
    /\ idx' = 0
    /\ delay' = 0
    /\ err' = "nil"
    /\ calls' = <<>>
    /\ fresh' = IsFresh
    /\ UNCHANGED <<helperVars, revision, modifiers, pressedKeys, cancelled, lastDown>>

Next ==
    \/ \E key \in KeyInputs, e \in BOOLEAN : Down(key, e)
    \/ \E key \in KeyInputs, e \in BOOLEAN : Up(key, e)
    \/ \E ks \in ComboInputs, d \in Delays : ComboPressStart(ks, d)
    \/ ComboDelayElapsed
    \/ ComboDelayCancelled
    \/ \E e \in BOOLEAN : ComboDown(e)
    \/ \E e \in BOOLEAN : ComboUp(e)
    \/ \E text \in TypInputs, d \in Delays : TypStart(text, d)
    \/ TypDelay
    \/ TypPress
    \/ \E e \in BOOLEAN : TypInsertText(e)
    \/ PressDelay
    \/ \E e \in BOOLEAN : PressDown(e)
    \/ \E e \in BOOLEAN : PressUp(e)
    \/ Cancel
    \/ Return

Spec == Init /\ [][Next]_vars

(***************************************************************************)
(* split on its own: every string of at most MaxSplitLen runes             *)
(***************************************************************************)
InitSplit ==
    /\ revision = 2
    /\ modifiers = 0
    /\ pressedKeys = {}
    /\ cancelled = FALSE
    /\ pc = "split"
    /\ op = "split"
    /\ keys \in SplitInputs
    /\ kk = <<>>
    /\ idx = 0
    /\ delay = 0
    /\ err = "nil"
    /\ calls = <<>>
    /\ fresh = TRUE
    /\ lastDown = [m \in ModifierNames |-> FALSE]
    /\ HelpersIdle

SplitCall ==
    /\ pc = "split"
    /\ kk' = split(keys)
    /\ pc' = "done"
    /\ UNCHANGED <<helperVars, revision, modifiers, pressedKeys, cancelled, op, keys, idx,
                   delay, err, calls, fresh, lastDown>>

NextSplit == SplitCall

SpecSplit == InitSplit /\ [][NextSplit]_vars

(***************************************************************************)
(* waitForEvent (helpers.go lines 220-233) and the listener goroutine of   *)
(* createWaitForEventHandler (lines 180-218); unnamed/part_000 lines       *)
(* 133-186 hold the same code.                                             *)
(*                                                                         *)
(* A goroutine blocked in a select statement is woken by the first of its  *)
(* cases to become ready and then runs that case; a select statement that  *)
(* finds several cases ready takes any of them.  ch is unbuffered: a send  *)
(* completes only with a receive.  The emitter is not part of these        *)
(* sources: it hands an event to chEvHandler while the context of the      *)
(* subscription is live and the listener is receiving.                     *)
(***************************************************************************)
MaxEvents == 2    \* events the emitter hands to one listener

\* the events argument of waitForEvent
waitEvents == {"listed"}

\* the events an emitter can publish: Event{typ, data}
Events == [typ : {"listed", "other"}, data : {"d1", "d2"}]

\* the predicateFn arguments
Predicates == {NoPredicate, [nil |-> FALSE, accepts |-> {"d1"}]}

\* line 197
stringSliceContains(set, e) == e \in set

\* lines 197-204: where the listener goes with an event it received, and the
\* value it sends on ch
listenerAfterEvent(ev) ==
    IF stringSliceContains(waitEvents, ev.typ)
    THEN IF ~predicateFn.nil
         THEN IF ev.data \in predicateFn.accepts
              THEN [pc |-> "send", value |-> ev.data]      \* line 200
              ELSE [pc |-> "close", value |-> Nil]         \* line 205 is next
         ELSE [pc |-> "send", value |-> Nil]               \* line 203
    ELSE [pc |-> "select", value |-> Nil]

\* mutant: a cancelled context is reported as a timeout
waitForEventResult_ctxTimedOut(c, evData) ==
    IF c = "ch" THEN [val |-> evData, err |-> "nil"]
    ELSE [val |-> Nil, err |-> "TimedOut"]

\* lines 224-232: what waitForEvent returns for the case its select took
waitForEventResult(c, evData) ==
    CASE c = "ctx"   -> [val |-> Nil, err |-> "nil"]          \* lines 225, 232
      [] c = "timer" -> [val |-> Nil, err |-> "TimedOut"]     \* lines 226-227
      [] c = "ch"    -> [val |-> evData, err |-> "nil"]       \* lines 228-229

\* mutant: waitForEvent returns without calling evCancelFn
waitForEventDeferred_none(done) == done

\* line 222: defer evCancelFn()
waitForEventDeferred(done) == TRUE

\* the select statement of waitForEvent takes case c, receiving v
Wake(c, v) ==
    /\ wpc' = "woken"
    /\ wcase' = c
    /\ wval' = v

\* case c became ready: it wakes waitForEvent if it is blocked in its select
WakeIfBlocked(c, v) ==
    IF wpc = "blocked" THEN Wake(c, v) ELSE UNCHANGED <<wpc, wcase, wval>>

InitWait == KeyboardIdle /\ HelpersIdle

\* line 221, lines 187-217: the call, up to the select statement
WaitForEventCall(p) ==
    /\ wpc = "idle"
    /\ predicateFn' = p
    /\ evCancelCtx' = ctxDone       \* line 187: a child of ctx
    /\ lpc' = "select"              \* line 191: go func()
    /\ wpc' = "created"
    /\ UNCHANGED <<notWaitVars, ctxDone, timerFired, wcase, sending, chClosed,
                   published, wval, werr>>

\* line 224: waitForEvent reaches its select statement; the timer starts
WaiterSelect ==
    /\ wpc = "created"
    /\ IF ctxDone \/ chClosed
       THEN \/ ctxDone /\ Wake("ctx", Nil) /\ lpc' = lpc
            \/ chClosed /\ Wake("ch", Nil) /\ lpc' = lpc
            \/ lpc = "send" /\ Wake("ch", sending) /\ lpc' = "close"
       ELSE wpc' = "blocked" /\ UNCHANGED <<wcase, wval, lpc>>
    /\ UNCHANGED <<notWaitVars, predicateFn, ctxDone, evCancelCtx, timerFired,
                   sending, chClosed, published, werr>>

\* the caller's context is cancelled, and evCancelCtx with it
CancelCtx ==
    /\ ~ctxDone
    /\ wpc # "returned"
    /\ ctxDone' = TRUE
    /\ evCancelCtx' = (wpc # "idle")
    /\ WakeIfBlocked("ctx", Nil)
    /\ UNCHANGED <<notWaitVars, predicateFn, timerFired, lpc, sending, chClosed,
                   published, werr>>

\* line 226: the timeout elapses while waitForEvent is blocked
TimerFires ==
    /\ wpc = "blocked"
    /\ ~timerFired
    /\ timerFired' = TRUE
    /\ Wake("timer", Nil)
    /\ UNCHANGED <<notWaitVars, predicateFn, ctxDone, evCancelCtx, lpc, sending,
                   chClosed, published, werr>>

\* line 196: the listener receives an event from the emitter
Publish(ev) ==
    /\ lpc = "select"
    /\ ~evCancelCtx
    /\ Len(published) < MaxEvents
    /\ published' = Append(published, ev)
    /\ LET l == listenerAfterEvent(ev)
       IN  lpc' = l.pc /\ sending' = l.value
    /\ UNCHANGED <<notWaitVars, predicateFn, ctxDone, evCancelCtx, timerFired, wpc,
                   wcase, chClosed, wval, werr>>

\* lines 200 and 203: the send on ch completes with the receive of line 228
ListenerSend ==
    /\ lpc = "send"
    /\ wpc = "blocked"
    /\ Wake("ch", sending)
    /\ lpc' = "close"
    /\ UNCHANGED <<notWaitVars, predicateFn, ctxDone, evCancelCtx, timerFired,
                   sending, chClosed, published, werr>>

\* line 205: close(ch)
ListenerClose ==
    /\ lpc = "close"
    /\ chClosed' = TRUE
    /\ lpc' = "cancel"
    /\ WakeIfBlocked("ch", Nil)
    /\ UNCHANGED <<notWaitVars, predicateFn, ctxDone, evCancelCtx, timerFired,
                   sending, published, werr>>

\* lines 209-210: evCancelFn() and return
ListenerCancel ==
    /\ lpc = "cancel"
    /\ evCancelCtx' = TRUE
    /\ lpc' = "done"
    /\ UNCHANGED <<notWaitVars, predicateFn, ctxDone, timerFired, wpc, wcase,
                   sending, chClosed, published, wval, werr>>

\* lines 194-195: the listener finds evCancelCtx done and returns
ListenerCtxDone ==
    /\ lpc = "select"
    /\ evCancelCtx
    /\ lpc' = "done"
    /\ UNCHANGED <<notWaitVars, predicateFn, ctxDone, evCancelCtx, timerFired, wpc,
                   wcase, sending, chClosed, published, wval, werr>>

\* lines 225-232: waitForEvent returns, running its deferred evCancelFn
WaiterReturn ==
    /\ wpc = "woken"
    /\ LET r == waitForEventResult(wcase, wval)
       IN  wval' = r.val /\ werr' = r.err
    /\ wpc' = "returned"
    /\ evCancelCtx' = waitForEventDeferred(evCancelCtx)
    /\ UNCHANGED <<notWaitVars, predicateFn, ctxDone, timerFired, wcase, lpc,
                   sending, chClosed, published>>

NextWait ==
    \/ \E p \in Predicates : WaitForEventCall(p)
    \/ WaiterSelect
    \/ CancelCtx
    \/ TimerFires
    \/ \E ev \in Events : Publish(ev)
    \/ ListenerSend
    \/ ListenerClose
    \/ ListenerCancel
    \/ ListenerCtxDone
    \/ WaiterReturn

SpecWait == InitWait /\ [][NextWait]_vars

\* the scheduler runs every goroutine that can take a step; the emitter, the
\* timer and the caller's context are not obliged to do anything
WaitFairness ==
    /\ WF_vars(WaiterSelect)
    /\ WF_vars(WaiterReturn)
    /\ WF_vars(ListenerSend)
    /\ WF_vars(ListenerClose)
    /\ WF_vars(ListenerCancel)
    /\ WF_vars(ListenerCtxDone)

SpecWaitFair == InitWait /\ [][NextWait]_vars /\ WaitFairness

(***************************************************************************)
(* The frame manager's handling of a navigation (FrameManager and Frame    *)
(* are not part of these sources; keyboard.go lines 761-792 hold the test  *)
(* of the aborted navigation).  A DocumentInfo is modelled by its          *)
(* documentID, no document by Nil.                                         *)
(***************************************************************************)
MaxNavEvents == 3    \* navigation events emitted in one behaviour

\* the frame ids a handler can be called with; "99" is no frame of the manager
FrameIDs == Frames \cup {"99"}

DocumentIDs == {"42", "7"}

ErrorTexts == {"any error"}

\* NavigationEvent{newDocument, err} emitted by frame
NavigationEvent(frame, newDocument, errorText) ==
    [frame |-> frame, newDocument |-> newDocument, err |-> errorText]

\* mutant: the event takes the document after the frame's slot was cleared
abortedDocument_afterClearing(frame) == Nil

\* the document of the event: the frame's pending document, captured before
\* it is cleared
abortedDocument(frame) == pendingDocument[frame]

\* the handler has something to abort: the frame is known and its pending
\* document is the one named
abortApplies(frameID, documentID) ==
    /\ frameID \in Frames
    /\ pendingDocument[frameID] # Nil
    /\ pendingDocument[frameID] = documentID

InitFrame == KeyboardIdle /\ HelpersIdle

\* a navigation of the frame starts: the frame gets a pending document
NavigationStarted(frameID, documentID) ==
    /\ fmpc = "idle"
    /\ pendingDocument' = [pendingDocument EXCEPT ![frameID] = documentID]
    /\ UNCHANGED <<notFrameVars, navEvents, fmpc, fmCall>>

\* the navigation commits: the event carries the document, the slot is cleared
NavigationCommitted(frameID) ==
    /\ fmpc = "idle"
    /\ pendingDocument[frameID] # Nil
    /\ Len(navEvents) < MaxNavEvents
    /\ navEvents' = Append(navEvents,
                           NavigationEvent(frameID, pendingDocument[frameID], Nil))
    /\ pendingDocument' = [pendingDocument EXCEPT ![frameID] = Nil]
    /\ UNCHANGED <<notFrameVars, fmpc, fmCall>>

\* line 779: fm.frameAbortedNavigation(frameID, errorText, documentID), up to
\* the emission of the event
FrameAbortedNavigation(frameID, errorText, documentID) ==
    /\ fmpc = "idle"
    /\ Len(navEvents) < MaxNavEvents
    /\ fmCall' = [frameID |-> frameID, errorText |-> errorText,
                  documentID |-> documentID,
                  pending |-> IF frameID \in Frames
                              THEN pendingDocument[frameID] ELSE Nil]
    /\ IF abortApplies(frameID, documentID)
       THEN /\ navEvents' = Append(navEvents,
                                   NavigationEvent(frameID, abortedDocument(frameID),
                                                   errorText))
            /\ fmpc' = "emitted"
       ELSE /\ navEvents' = navEvents
            /\ fmpc' = "returned"
    /\ UNCHANGED <<notFrameVars, pendingDocument>>

\* the handler clears the frame's pending document and returns
FrameAbortedNavigationClear ==
    /\ fmpc = "emitted"
    /\ pendingDocument' = [pendingDocument EXCEPT ![fmCall.frameID] = Nil]
    /\ fmpc' = "returned"
    /\ UNCHANGED <<notFrameVars, navEvents, fmCall>>

\* the caller goes on after the handler
FrameManagerIdle ==
    /\ fmpc = "returned"
    /\ fmpc' = "idle"
    /\ UNCHANGED <<notFrameVars, pendingDocument, navEvents, fmCall>>

NextFrame ==
    \/ \E f \in Frames, d \in DocumentIDs : NavigationStarted(f, d)
    \/ \E f \in Frames : NavigationCommitted(f)
    \/ \E f \in FrameIDs, e \in ErrorTexts, d \in DocumentIDs :
           FrameAbortedNavigation(f, e, d)
    \/ FrameAbortedNavigationClear
    \/ FrameManagerIdle

SpecFrame == InitFrame /\ [][NextFrame]_vars

(***************************************************************************)
(* k6Throw: helpers.go lines 235-279 (k6Throw runs k6ThrowUnsafe inside    *)
(* k6ThrowOnce.Do) and unnamed/part_000 lines 188-214 (k6Throw is the      *)
(* body itself).  helpersRevision says which one a behaviour runs.         *)
(***************************************************************************)
MaxK6Throws == 3    \* k6Throw calls in one behaviour

\* what a call finds: the runtime and the process id in its ctx, and whether
\* os.FindProcess fails
ThrowArgs == [rt : {"nil", "rt"}, pid : {0, 7}, findErr : BOOLEAN]

\* lines 248-269 (part_000 192-213): the body gets as far as p.Kill()
reachesKill(a) == a.rt # "nil" /\ a.pid # 0 /\ ~a.findErr

\* lines 249-253 (part_000 193-197): the panic of a nil runtime comes before
\* the defer of k6common.Throw; every other path ends in the deferred Throw
unwindsBy(a) == IF a.rt = "nil" THEN "panicking" ELSE "throwing"

InitThrow ==
    /\ KeyboardIdle /\ WaitIdle /\ FrameIdle /\ ConvIdle /\ ApiIdle
    /\ helpersRevision \in {1, 2}
    /\ k6ThrowOnce = "fresh"
    /\ tpc = [f \in Flows |-> "idle"]
    /\ targ = [f \in Flows |-> Nil]
    /\ kills = 0
    /\ throwCalls = 0

\* a flow calls k6Throw
K6ThrowCall(f, a) ==
    /\ tpc[f] = "idle"
    /\ throwCalls < MaxK6Throws
    /\ throwCalls' = throwCalls + 1
    /\ targ' = [targ EXCEPT ![f] = a]
    /\ tpc' = [tpc EXCEPT ![f] = IF helpersRevision = 1 THEN "once" ELSE "unsafe"]
    /\ UNCHANGED <<notThrowVars, helpersRevision, k6ThrowOnce, kills>>

\* helpers.go line 239: k6ThrowOnce.Do; a caller that finds the function
\* running waits for it, one that finds it done returns
OnceDo(f) ==
    /\ tpc[f] = "once"
    /\ k6ThrowOnce # "running"
    /\ IF k6ThrowOnce = "fresh"
       THEN k6ThrowOnce' = "running" /\ tpc' = [tpc EXCEPT ![f] = "unsafe"]
       ELSE k6ThrowOnce' = k6ThrowOnce /\ tpc' = [tpc EXCEPT ![f] = "returned"]
    /\ UNCHANGED <<notThrowVars, helpersRevision, targ, kills, throwCalls>>

\* helpers.go lines 248-269, part_000 lines 192-213: the body up to its end
K6ThrowUnsafe(f) ==
    /\ tpc[f] = "unsafe"
    /\ kills' = IF reachesKill(targ[f]) THEN kills + 1 ELSE kills
    /\ tpc' = [tpc EXCEPT ![f] = unwindsBy(targ[f])]
    /\ UNCHANGED <<notThrowVars, helpersRevision, k6ThrowOnce, targ, throwCalls>>

\* the panic leaves k6Throw; in helpers.go it passes through Once.Do, which
\* counts the function as done
K6ThrowUnwind(f) ==
    /\ tpc[f] \in {"throwing", "panicking"}
    /\ tpc' = [tpc EXCEPT ![f] = IF tpc[f] = "throwing" THEN "thrown" ELSE "panicked"]
    /\ k6ThrowOnce' = IF helpersRevision = 1 THEN "done" ELSE k6ThrowOnce
    /\ UNCHANGED <<notThrowVars, helpersRevision, targ, kills, throwCalls>>

\* the flow goes on: the script runtime caught the panic, or k6Throw returned
FlowResumes(f) ==
    /\ tpc[f] \in {"thrown", "panicked", "returned"}
    /\ tpc' = [tpc EXCEPT ![f] = "idle"]
    /\ targ' = [targ EXCEPT ![f] = Nil]
    /\ UNCHANGED <<notThrowVars, helpersRevision, k6ThrowOnce, kills, throwCalls>>

NextThrow ==
    \/ \E f \in Flows, a \in ThrowArgs : K6ThrowCall(f, a)
    \/ \E f \in Flows : OnceDo(f)
    \/ \E f \in Flows : K6ThrowUnsafe(f)
    \/ \E f \in Flows : K6ThrowUnwind(f)
    \/ \E f \in Flows : FlowResumes(f)

SpecThrow == InitThrow /\ [][NextThrow]_vars

(***************************************************************************)
(* convertArgument and convertBaseJSHandleTypes (helpers.go lines 40-99;   *)
(* unnamed/part_000 lines 37-95 hold the same code).                       *)
(*                                                                         *)
(* An int64 is its sign and its magnitude hi * LimbBase + lo, so that      *)
(* values beyond 32 bits are at hand.  A float64 is NaN, an infinity or    *)
(* a finite value of a sign and a number of tenths; minus zero is the      *)
(* finite value of negative sign and zero tenths.                          *)
(***************************************************************************)
LimbBase == 100000

\* math.MaxInt32 = 2147483647, in limbs
MaxInt32Hi == 21474
MaxInt32Lo == 83647

Int64(neg, hi, lo) == [neg |-> neg, hi |-> hi, lo |-> lo]

\* the int64 arguments, each with the decimal numeral that denotes it
Int64Cases ==
    { [i |-> Int64(FALSE, 0, 0),         decimal |-> "0"],
      [i |-> Int64(FALSE, 0, 7),         decimal |-> "7"],
      [i |-> Int64(TRUE, 0, 1),          decimal |-> "-1"],
      [i |-> Int64(FALSE, 0, 40000),     decimal |-> "40000"],
      [i |-> Int64(FALSE, 3, 5),         decimal |-> "300005"],
      [i |-> Int64(FALSE, 21474, 83646), decimal |-> "2147483646"],
      [i |-> Int64(FALSE, 21474, 83647), decimal |-> "2147483647"],
      [i |-> Int64(FALSE, 21474, 83648), decimal |-> "2147483648"],
      [i |-> Int64(FALSE, 21475, 0),     decimal |-> "2147500000"],
      [i |-> Int64(FALSE, 90071992, 54740), decimal |-> "9007199254740"],
      [i |-> Int64(TRUE, 21474, 83647),  decimal |-> "-2147483647"],
      [i |-> Int64(TRUE, 21474, 83648),  decimal |-> "-2147483648"],
      [i |-> Int64(TRUE, 21474, 83649),  decimal |-> "-2147483649"],
      [i |-> Int64(TRUE, 50000, 1),      decimal |-> "-5000000001"] }

Int64Inputs == { c.i : c \in Int64Cases }

Float64(class, neg, tenths) == [class |-> class, neg |-> neg, tenths |-> tenths]

NaN == Float64("nan", FALSE, 0)
PosInf == Float64("inf", FALSE, 0)
NegInf == Float64("inf", TRUE, 0)
NegZero == Float64("finite", TRUE, 0)

PosZero == Float64("finite", FALSE, 0)

\* the float64 arguments
Float64Inputs ==
    { NaN, PosInf, NegInf, NegZero, PosZero,
      Float64("finite", FALSE, 15), Float64("finite", TRUE, 25),
      Float64("finite", FALSE, 1) }

\* Go's == on float64: NaN equals nothing, the two zeros equal each other
floatEq(a, b) ==
    /\ a.class # "nan"
    /\ b.class # "nan"
    /\ a.class = b.class
    /\ IF a.class = "inf" THEN a.neg = b.neg
       ELSE \/ a.tenths = 0 /\ b.tenths = 0
            \/ a.neg = b.neg /\ a.tenths = b.tenths

\* math.IsNaN
IsNaN(f) == f.class = "nan"

DigitChars == <<"0", "1", "2", "3", "4", "5", "6", "7", "8", "9">>

Digit(d) == DigitChars[d + 1]

RECURSIVE Digits(_)
\* the decimal numeral of a natural number
Digits(n) == IF n < 10 THEN Digit(n) ELSE Digits(n \div 10) \o Digit(n % 10)

\* the low limb below a non-zero high limb: five digits
PadLimb(n) ==
    Digit(n \div 10000) \o Digit((n \div 1000) % 10) \o Digit((n \div 100) % 10)
        \o Digit((n \div 10) % 10) \o Digit(n % 10)

\* the decimal numeral "%d" and json.Marshal give for an int64
formatInt(i) ==
    (IF i.neg THEN "-" ELSE "")
        \o (IF i.hi = 0 THEN Digits(i.lo) ELSE Digits(i.hi) \o PadLimb(i.lo))

\* json.Marshal of a finite float64
marshalFloat(f) ==
    (IF f.neg THEN "-" ELSE "")
        \o Digits(f.tenths \div 10)
        \o (IF f.tenths % 10 = 0 THEN "" ELSE "." \o Digit(f.tenths % 10))

\* the values arg.Export() gives for the other types, and their JSON; a
\* function has none
OtherExports == {"string:abc", "bool:true", "null", "func"}

marshalExport(v) ==
    CASE v = "string:abc" -> [b |-> "\"abc\"", err |-> "nil"]
      [] v = "bool:true"  -> [b |-> "true", err |-> "nil"]
      [] v = "null"       -> [b |-> "null", err |-> "nil"]
      [] v = "func"       -> [b |-> "", err |-> "UnsupportedType"]

\* cdpruntime.CallArgument
CallArgument(value, unserializableValue, objectID) ==
    [value |-> value, unserializableValue |-> unserializableValue,
     objectID |-> objectID]

\* what convertArgument returns, with the handle as it leaves it
Converted(ca, e, h) == [arg |-> ca, err |-> e, handle |-> h]

ExecutionContexts == {"ctx1", "ctx2"}

\* cdpruntime.RemoteObject of a handle: each of its three fields is empty or
\* not; the object with all three empty is the one of undefined
RemoteObjects ==
    [unserializableValue : {"", "NaN"}, objectID : {"", "obj-1"},
     value : {"", "\"text\""}]

\* BaseJSHandle
Handles == [execCtx : ExecutionContexts, disposed : BOOLEAN,
            remoteObject : RemoteObjects]

\* mutant: the object id is looked at before the unserializable value
handleArgument_objectIDFirst(remoteObject) ==
    IF remoteObject.objectID # ""
    THEN CallArgument("", "", remoteObject.objectID)
    ELSE IF remoteObject.unserializableValue # ""
         THEN CallArgument("", remoteObject.unserializableValue, "")
         ELSE CallArgument(remoteObject.value, "", "")

\* lines 47-55: the argument of a live handle of this context
handleArgument(remoteObject) ==
    IF remoteObject.unserializableValue # ""
    THEN CallArgument("", remoteObject.unserializableValue, "")
    ELSE IF remoteObject.objectID = ""
         THEN CallArgument(remoteObject.value, "", "")
         ELSE CallArgument("", "", remoteObject.objectID)

\* mutant: the disposed check comes before the context check
convertBaseJSHandleTypes_disposedFirst(ctx, h) ==
    IF h.disposed
    THEN Converted(NoCallArgument, "JSHandleDisposed", h)
    ELSE IF h.execCtx # ctx
         THEN Converted(NoCallArgument, "WrongExecutionContext", h)
         ELSE Converted(handleArgument(h.remoteObject), "nil", h)

\* lines 40-56
convertBaseJSHandleTypes(ctx, h) ==
    IF h.execCtx # ctx
    THEN Converted(NoCallArgument, "WrongExecutionContext", h)
    ELSE IF h.disposed
         THEN Converted(NoCallArgument, "JSHandleDisposed", h)
         ELSE Converted(handleArgument(h.remoteObject), "nil", h)

\* line 61: arg.ToInteger() > math.MaxInt32
aboveMaxInt32(i) ==
    /\ ~i.neg
    /\ \/ i.hi > MaxInt32Hi
       \/ i.hi = MaxInt32Hi /\ i.lo > MaxInt32Lo

\* mutant: the comparison is >= math.MaxInt32
convertInt64_fromMaxInt32(i) ==
    IF aboveMaxInt32(i) \/ i = Int64(FALSE, MaxInt32Hi, MaxInt32Lo)
    THEN CallArgument("", formatInt(i) \o "n", "")
    ELSE CallArgument(formatInt(i), "", "")

\* lines 60-67
convertInt64(i) ==
    IF aboveMaxInt32(i)
    THEN CallArgument("", formatInt(i) \o "n", "")
    ELSE CallArgument(formatInt(i), "", "")

\* mutant: minus zero is not singled out
convertFloat64_noNegZero(f) ==
    IF floatEq(f, PosInf) THEN CallArgument("", "Infinity", "")
    ELSE IF floatEq(f, NegInf) THEN CallArgument("", "-Infinity", "")
    ELSE IF IsNaN(f) THEN CallArgument("", "NaN", "")
    ELSE CallArgument(marshalFloat(f), "", "")

\* lines 68-88
convertFloat64(f) ==
    IF floatEq(f, NegZero) THEN CallArgument("", "-0", "")
    ELSE IF floatEq(f, PosInf) THEN CallArgument("", "Infinity", "")
    ELSE IF floatEq(f, NegInf) THEN CallArgument("", "-Infinity", "")
    ELSE IF IsNaN(f) THEN CallArgument("", "NaN", "")
    ELSE CallArgument(marshalFloat(f), "", "")

\* lines 97-98
convertExport(v) ==
    LET m == marshalExport(v)
    IN  [arg |-> CallArgument(m.b, "", ""), err |-> m.err]

\* lines 58-99
convertArgument(ctx, a, h) ==
    CASE a.type = "int64"   -> Converted(convertInt64(a.i), "nil", h)
      [] a.type = "float64" -> Converted(convertFloat64(a.f), "nil", h)
      [] a.type \in {"ElementHandle", "BaseJSHandle"} ->
             convertBaseJSHandleTypes(ctx, h)
      [] OTHER -> Converted(convertExport(a.export).arg, convertExport(a.export).err, h)

\* the goja.Value arguments
GojaArgs ==
    { [type |-> "int64", i |-> i] : i \in Int64Inputs }
        \cup { [type |-> "float64", f |-> f] : f \in Float64Inputs }
        \cup { [type |-> t, handle |-> h] :
                   t \in {"ElementHandle", "BaseJSHandle"}, h \in Handles }
        \cup { [type |-> "other", export |-> v] : v \in OtherExports }

IsHandle(a) == a.type \in {"ElementHandle", "BaseJSHandle"}

InitConvert ==
    /\ KeyboardIdle /\ WaitIdle /\ FrameIdle /\ ThrowIdle /\ ApiIdle
    /\ gojaArg \in GojaArgs
    /\ execCtx \in ExecutionContexts
    /\ objHandle = IF IsHandle(gojaArg) THEN gojaArg.handle ELSE NoHandle
    /\ cpc = "call"
    /\ callArgument = NoCallArgument
    /\ cerr = "nil"

\* the call of convertArgument
ConvertArgument ==
    /\ cpc = "call"
    /\ LET r == convertArgument(execCtx, gojaArg, objHandle)
       IN  /\ callArgument' = r.arg
           /\ cerr' = r.err
           /\ objHandle' = r.handle
    /\ cpc' = "done"
    /\ UNCHANGED <<notConvVars, gojaArg, execCtx>>

NextConvert == ConvertArgument

SpecConvert == InitConvert /\ [][NextConvert]_vars

(***************************************************************************)
(* callApiWithTimeout (helpers.go lines 101-126, part_000 lines 97-122)    *)
(* and the goroutine it starts for fn.  resultCh and errCh are unbuffered: *)
(* a send of fn completes only with the receive of the select statement.   *)
(***************************************************************************)
\* the timeout arguments: none, or a positive duration
Timeouts == {0, 1}

\* what fn may send: a result on resultCh or an error on errCh
Deliveries == [kind : {"result"}, val : {"r1", "r2"}] \cup [kind : {"err"}, val : {"e1", "e2"}]

\* lines 116-125: what the case taken leaves in result and err
callApiResult(c, ctxE, d) ==
    CASE c = "done" ->
             [result |-> Nil, err |-> IF ctxE = "Canceled" THEN "TimedOut" ELSE "nil"]
      [] c = "result" -> [result |-> d.val, err |-> "nil"]
      [] c = "err" -> [result |-> Nil, err |-> d.val]

InitApi == KeyboardIdle /\ HelpersIdle

\* lines 101-114: apiCtx is ctx, or its child with the deadline; fn is started
CallApiWithTimeout(t) ==
    /\ apc = "idle"
    /\ apiTimeout' = t
    /\ apiCtxErr' = ctxErr
    /\ apc' = "select"
    /\ fnpc' = "running"
    /\ UNCHANGED <<notApiVars, ctxErr, acase, delivery, aresult, aerr>>

\* fn sends d: the send completes at once if callApiWithTimeout is blocked
\* in its select statement, and waits for the receive otherwise
FnSends(d) ==
    /\ fnpc = "running"
    /\ delivery' = d
    /\ IF apc = "blocked"
       THEN apc' = "woken" /\ acase' = d.kind /\ fnpc' = "exited"
       ELSE apc' = apc /\ acase' = acase /\ fnpc' = "sending"
    /\ UNCHANGED <<notApiVars, apiTimeout, ctxErr, apiCtxErr, aresult, aerr>>

\* fn returns without sending once its context is done
FnGivesUp ==
    /\ fnpc = "running"
    /\ apiCtxErr # "nil"
    /\ fnpc' = "exited"
    /\ UNCHANGED <<notApiVars, apiTimeout, ctxErr, apiCtxErr, apc, acase, delivery,
                   aresult, aerr>>

\* line 116: the select statement takes one of the cases that are ready, or blocks
ApiSelect(c) ==
    /\ apc = "select"
    /\ \/ c = "done" /\ apiCtxErr # "nil"
       \/ c = delivery.kind /\ fnpc = "sending"
       \/ c = "none" /\ apiCtxErr = "nil" /\ fnpc # "sending"
    /\ apc' = IF c = "none" THEN "blocked" ELSE "woken"
    /\ acase' = c
    /\ fnpc' = IF c \in {"result", "err"} THEN "exited" ELSE fnpc
    /\ UNCHANGED <<notApiVars, apiTimeout, ctxErr, apiCtxErr, delivery, aresult, aerr>>

\* the context e ends with, seen by a select statement that is blocked
ApiCtxEnds(e) ==
    /\ apiCtxErr' = IF apiCtxErr = "nil" /\ apc # "idle" THEN e ELSE apiCtxErr
    /\ IF apc = "blocked" /\ apiCtxErr = "nil"
       THEN apc' = "woken" /\ acase' = "done"
       ELSE apc' = apc /\ acase' = acase

\* the caller's ctx is cancelled
ApiCancel ==
    /\ ctxErr = "nil"
    /\ ctxErr' = "Canceled"
    /\ ApiCtxEnds("Canceled")
    /\ UNCHANGED <<notApiVars, apiTimeout, fnpc, delivery, aresult, aerr>>

\* the deadline of context.WithTimeout passes
ApiDeadline ==
    /\ apiTimeout > 0
    /\ apc \in {"select", "blocked", "woken"}
    /\ apiCtxErr = "nil"
    /\ ApiCtxEnds("DeadlineExceeded")
    /\ UNCHANGED <<notApiVars, apiTimeout, ctxErr, fnpc, delivery, aresult, aerr>>

\* lines 117-125 and the deferred cancelFn of line 111
ApiReturn ==
    /\ apc = "woken"
    /\ apc' = "returned"
    /\ aresult' = callApiResult(acase, apiCtxErr, delivery).result
    /\ aerr' = callApiResult(acase, apiCtxErr, delivery).err
    /\ apiCtxErr' = IF apiTimeout > 0 /\ apiCtxErr = "nil" THEN "Canceled" ELSE apiCtxErr
    /\ UNCHANGED <<notApiVars, apiTimeout, ctxErr, acase, fnpc, delivery>>

\* the caller has the values; the next call finds ctx as it is
ApiNext ==
    /\ apc = "returned"
    /\ apiTimeout' = 0
    /\ apiCtxErr' = "nil"
    /\ apc' = "idle"
    /\ acase' = "none"
    /\ fnpc' = "idle"
    /\ delivery' = NoDelivery
    /\ aresult' = Nil
    /\ aerr' = "nil"
    /\ UNCHANGED <<notApiVars, ctxErr>>

NextApi ==
    \/ \E t \in Timeouts : CallApiWithTimeout(t)
    \/ \E d \in Deliveries : FnSends(d)
    \/ FnGivesUp
    \/ \E c \in {"none", "done", "result", "err"} : ApiSelect(c)
    \/ ApiCancel
    \/ ApiDeadline
    \/ ApiReturn
    \/ ApiNext

SpecApi == InitApi /\ [][NextApi]_vars

(***************************************************************************)
(* Vocabulary of the properties                                            *)
(***************************************************************************)
ComboDone == pc = "done" /\ op = "comboPress"

\* this step made one more call; LastCall is that call
NewCall == Len(calls') = Len(calls) + 1
LastCall == calls'[Len(calls')]

IsDownCmd(c) == c.fn = "down" /\ c.sent /\ c.cmd.type \in {"keyDown", "rawKeyDown"}
IsUpCmd(c) == c.fn = "up" /\ c.sent /\ c.cmd.type = "keyUp"

HasBit(m, b) == BitAnd(m, b) = b

\* Alt, Control or Meta is set in m
NonShiftHeld(m) ==
    HasBit(m, ModifierKeyAlt) \/ HasBit(m, ModifierKeyControl) \/ HasBit(m, ModifierKeyMeta)

\* the 26 letter codes KeyA..KeyZ
LetterCodes ==
    {"Key" \o l : l \in {"A", "B", "C", "D", "E", "F", "G", "H", "I", "J", "K", "L", "M",
                         "N", "O", "P", "Q", "R", "S", "T", "U", "V", "W", "X", "Y", "Z"}}

\* the token is neither a code of the layout nor the unmodified value of an entry
OnlyInShiftLayer(tok) ==
    /\ tok \notin DOMAIN layoutKeys
    /\ \A c \in DOMAIN layoutKeys : layoutKeys[c].Key # tok
    /\ \E c \in DOMAIN layoutKeys : layoutKeys[c].ShiftKey = tok

\* the layout entry a valid token stands for
EntryOf(tok) ==
    layoutKeys[CHOOSE c \in DOMAIN layoutKeys :
                   \/ c = tok
                   \/ layoutKeys[c].Key = tok
                   \/ layoutKeys[c].ShiftKey = tok]

ShiftPlusA == <<"S", "h", "i", "f", "t", "+", "a">>
ShiftPlusKeyA == <<"S", "h", "i", "f", "t", "+", "K", "e", "y", "A">>

(***************************************************************************)
(* C1                                                                      *)
(***************************************************************************)
\* C1: a comboPress of k1+k2+...+kn that returns without error has made
\* exactly n key-down calls, for k1,...,kn in this order, and then exactly n
\* key-up calls, for kn,...,k1 in this order; at no moment of a comboPress
\* does a key-up precede a key-down.
C1_ComboPressOrder ==
    /\ op = "comboPress" =>
           \A i, j \in 1..Len(calls) :
               (i < j /\ calls[i].fn = "up") => calls[j].fn = "up"
    /\ (ComboDone /\ err = "nil") =>
           LET n == Len(kk)
           IN  /\ keys = JoinPlus(kk)
               /\ Len(calls) = 2 * n
               /\ \A i \in 1..n :
                      /\ IsDownCmd(calls[i]) /\ calls[i].err = "nil"
                      /\ calls[i].arg = Str(kk[i])
                      /\ IsUpCmd(calls[n + i]) /\ calls[n + i].err = "nil"
                      /\ calls[n + i].arg = Str(kk[n + 1 - i])

C1_Witness ==
    /\ ComboDone /\ err = "nil"
    /\ Len(kk) = 2 /\ kk[1] # kk[2]
    /\ Len(calls) = 4

(***************************************************************************)
(* C2                                                                      *)
(***************************************************************************)
\* the four calls of a comboPress of Shift+<letter token>, the letter's
\* key-down carrying key and text t
ShiftLetterCalls(token, t) ==
    /\ Len(calls) = 4
    /\ IsDownCmd(calls[1]) /\ calls[1].arg = "Shift" /\ calls[1].cmd.key = "Shift"
    /\ IsDownCmd(calls[2]) /\ calls[2].arg = token
    /\ calls[2].cmd.text = t /\ calls[2].cmd.key = t
    /\ IsUpCmd(calls[3]) /\ calls[3].arg = token
    /\ IsUpCmd(calls[4]) /\ calls[4].arg = "Shift" /\ calls[4].cmd.key = "Shift"

ShiftCondition(tok, m) ==
    /\ OnlyInShiftLayer(tok) \/ tok \in LetterCodes
    /\ HasBit(m, ModifierKeyShift) \/ OnlyInShiftLayer(tok)
    /\ EntryOf(tok).ShiftKey # ""

\* x is the shift value of the entry of tok
IsShiftValue(x, tok) == EntryOf(tok).ShiftKey # "" /\ x = EntryOf(tok).ShiftKey

\* C3 as stated: the Key and the Text a key-down resolves to are the entry's
\* shift value exactly when the token is in the shift layer only or a letter
\* code, Shift is considered active and the entry has a shift value.
C3_Original ==
    [][(NewCall /\ IsDownCmd(LastCall)) =>
          ((/\ IsShiftValue(LastCall.cmd.key, LastCall.arg)
            /\ IsShiftValue(LastCall.cmd.text, LastCall.arg))
           <=> ShiftCondition(LastCall.arg, modifiers))]_vars

\* C3 as amended: the Key a key-down or key-up resolves to is the entry's
\* shift value exactly under that condition, and otherwise the entry's
\* unmodified Key; the Text of a key-down is the shift value exactly under
\* that condition while none of Alt, Control, Meta is held (then it is
\* empty); a token such as "2" pressed with Shift held never yields "@".
C3_ShiftSubstitution ==
    [][(NewCall /\ LastCall.sent /\ LastCall.fn \in {"down", "up"}) =>
          LET tok == LastCall.arg
              sub == ShiftCondition(tok, modifiers)
          IN  /\ LastCall.cmd.key =
                     IF sub THEN EntryOf(tok).ShiftKey ELSE EntryOf(tok).Key
              /\ LastCall.fn = "down" =>
                     /\ IsShiftValue(LastCall.cmd.text, tok)
                            <=> (sub /\ ~NonShiftHeld(modifiers))
                     /\ (sub /\ NonShiftHeld(modifiers)) => LastCall.cmd.text = ""
              /\ (tok = "2") =>
                     LastCall.cmd.key = "2" /\ LastCall.cmd.text # "@"]_vars

\* "2" was pressed while Shift was held, and "@" while it was not
C3_Witness ==
    /\ \E i \in 1..Len(calls) :
           /\ IsDownCmd(calls[i]) /\ calls[i].arg = "2"
           /\ HasBit(calls[i].cmd.modifiers, ModifierKeyShift)
           /\ calls[i].cmd.text = "2"
    /\ \E i \in 1..Len(calls) :
           /\ IsDownCmd(calls[i]) /\ calls[i].arg = "@"
           /\ calls[i].cmd.text = "@"

(***************************************************************************)
(* C4                                                                      *)
(***************************************************************************)
\* C4: a key-down of a valid key called while Alt, Control or Meta is held
\* dispatches a rawKeyDown with empty text and empty unmodifiedText; called
\* while none of them is held, with a non-empty resolved text, it dispatches
\* a keyDown.
C4_TextSuppressed ==
    [][(NewCall /\ LastCall.fn = "down" /\ LastCall.arg \in layoutValidKeys) =>
          /\ LastCall.sent
          /\ NonShiftHeld(modifiers) =>
                 /\ LastCall.cmd.text = ""
                 /\ LastCall.cmd.unmodifiedText = ""
                 /\ LastCall.cmd.type = "rawKeyDown"
          /\ (~NonShiftHeld(modifiers) /\ LastCall.cmd.text # "") =>
                 LastCall.cmd.type = "keyDown"]_vars

\* "a" went down while Control was held
C4_Witness ==
    \E i \in 1..Len(calls) :
        /\ calls[i].fn = "down" /\ calls[i].arg = "a"
        /\ HasBit(calls[i].cmd.modifiers, ModifierKeyControl)
        /\ calls[i].cmd.type = "rawKeyDown"

(***************************************************************************)
(* C5                                                                      *)
(***************************************************************************)
\* C5: down and up of a key outside the layout's valid keys return
\* InvalidKey, dispatch nothing and leave the modifiers and the pressed keys
\* as they were.
C5_InvalidKey ==
    [][(NewCall /\ LastCall.fn \in {"down", "up"} /\ LastCall.arg \notin layoutValidKeys) =>
          /\ LastCall.err = "InvalidKey"
          /\ ~LastCall.sent
          /\ err' = "InvalidKey" /\ pc' = "done"
          /\ modifiers' = modifiers
          /\ pressedKeys' = pressedKeys]_vars

\* an invalid key was given to a keyboard with keys held
C5_Witness ==
    /\ pc = "done" /\ op \in {"down", "up"}
    /\ calls[1].arg = OtherRune /\ err = "InvalidKey"
    /\ modifiers # 0 /\ pressedKeys # {}

(***************************************************************************)
(* C6                                                                      *)
(***************************************************************************)
\* C6: the bit of each modifier is set in the modifier mask exactly when the
\* most recent valid down/up call for that modifier was a down; the mask of
\* the modifier's key-down command includes its bit and the mask of its
\* key-up command does not.
C6_ModifierBits ==
    /\ \A m \in ModifierNames :
           HasBit(modifiers, modifierBitFromKeyName(m)) <=> lastDown[m]
    /\ \A i \in 1..Len(calls) :
           (calls[i].sent /\ calls[i].fn \in {"down", "up"}
                /\ TokenModifier(calls[i].arg) # "") =>
               (HasBit(calls[i].cmd.modifiers,
                       modifierBitFromKeyName(TokenModifier(calls[i].arg)))
                    <=> calls[i].fn = "down")

\* C6 for the later revision of down and up alone
C6_LaterRevision == revision = 2 => C6_ModifierBits

(***************************************************************************)
(* C7                                                                      *)
(***************************************************************************)
\* the calls before the last one that sent a command for key code kc
EarlierCallsOf(kc) ==
    {i \in 1..(Len(calls') - 1) : calls'[i].sent /\ calls'[i].cmd.keyCode = kc}

Latest(S) == CHOOSE i \in S : \A j \in S : j <= i

\* C7: the autoRepeat flag of a key-down command is true exactly when the
\* resolved key code was in the pressed-key set before the down: false for
\* the first down of a key and for the first down after an up of it, true
\* for a further down without an up in between.
C7_AutoRepeat ==
    [][(NewCall /\ IsDownCmd(LastCall)) =>
          LET kc == LastCall.cmd.keyCode
              before == EarlierCallsOf(kc)
          IN  /\ LastCall.cmd.autoRepeat <=> kc \in pressedKeys
              /\ before # {} =>
                     (LastCall.cmd.autoRepeat <=> calls'[Latest(before)].fn = "down")
              /\ (before = {} /\ fresh') => ~LastCall.cmd.autoRepeat]_vars

\* a key went down twice with no up in between, then up, then down again
C7_Witness ==
    \E i, j \in 1..Len(calls) :
        /\ i + 1 = j
        /\ IsDownCmd(calls[i]) /\ IsDownCmd(calls[j])
        /\ calls[i].cmd.keyCode = calls[j].cmd.keyCode
        /\ ~calls[i].cmd.autoRepeat /\ calls[j].cmd.autoRepeat

(***************************************************************************)
(* C8 (checked under SpecSplit)                                            *)
(***************************************************************************)
\* C8: split("+") = ["+"], split("++") = ["+", ""], split("+++") = ["+", "+"],
\* split("a+b") = ["a", "b"]; for every input the result has at least one
\* segment, every segment but the last is non-empty, a '+' occurs in a
\* segment only as its first rune, and joining the segments with '+' gives
\* the input back (the '+' runes that are not in a segment are the separators).
C8_Split ==
    (pc = "done" /\ op = "split") =>
        /\ keys = <<"+">> => kk = << <<"+">> >>
        /\ keys = <<"+", "+">> => kk = << <<"+">>, <<>> >>
        /\ keys = <<"+", "+", "+">> => kk = << <<"+">>, <<"+">> >>
        /\ keys = <<"a", "+", "b">> => kk = << <<"a">>, <<"b">> >>
        /\ Len(kk) >= 1
        /\ \A i \in 1..(Len(kk) - 1) : kk[i] # <<>>
        /\ \A i \in 1..Len(kk) : \A j \in 2..Len(kk[i]) : kk[i][j] # "+"
        /\ JoinPlus(kk) = keys

C8_Witness ==
    pc = "done" /\ op = "split" /\ keys = <<"+", "+", "+">> /\ Len(kk) = 2

(***************************************************************************)
(* C9                                                                      *)
(***************************************************************************)
RECURSIVE TypExpected(_)
\* the calls typ owes the runes of text: down and up for a valid key, one
\* insertText for any other rune
TypExpected(text) ==
    IF text = <<>> THEN <<>>
    ELSE (IF Head(text) \in layoutValidKeys
          THEN <<[fn |-> "down", arg |-> Head(text)], [fn |-> "up", arg |-> Head(text)]>>
          ELSE <<[fn |-> "insertText", arg |-> Head(text)]>>)
         \o TypExpected(Tail(text))

\* C9: typ makes, rune by rune and in order, a key-down and a key-up for a
\* rune that is a valid key and one insertText carrying the rune for any
\* other rune; the first failing call ends it, and it returns that error.
C9_Typ ==
    op = "typ" =>
        LET exp == TypExpected(keys)
            n == Len(calls)
        IN  /\ n <= Len(exp)
            /\ \A i \in 1..n :
                   /\ calls[i].fn = exp[i].fn /\ calls[i].arg = exp[i].arg
                   /\ calls[i].sent
                   /\ calls[i].fn = "down" => IsDownCmd(calls[i])
                   /\ calls[i].fn = "up" => IsUpCmd(calls[i])
                   /\ calls[i].fn = "insertText" =>
                          calls[i].cmd.type = "insertText" /\ calls[i].cmd.text = exp[i].arg
                   /\ i < n => calls[i].err = "nil"
            /\ (pc = "done" /\ err = "nil") =>
                   n = Len(exp) /\ (n > 0 => calls[n].err = "nil")
            /\ (pc = "done" /\ err # "nil") => (n > 0 /\ calls[n].err = err)
            /\ (n > 0 /\ calls[n].err # "nil") => pc = "done"

C9_Witness ==
    /\ pc = "done" /\ op = "typ" /\ err = "nil"
    /\ keys = <<"a", OtherRune>>
    /\ Len(calls) = 3

(***************************************************************************)
(* C10                                                                     *)
(***************************************************************************)
\* the segments pressed before the failure keep their key codes and their
\* modifier bits: calls 1..(n-1) when call n is the failed down
StillHeld(c) ==
    /\ c.cmd.keyCode \in pressedKeys
    /\ HasBit(modifiers, modifierBitFromKeyName(c.cmd.key))

\* a comboPress ended by a failed down: only downs were called, one per
\* segment up to the failing one
FailedDown ==
    /\ ComboDone /\ err \notin {"nil", "Canceled"}
    /\ calls[Len(calls)].fn = "down"

\* a comboPress ended by a failed up
FailedUp ==
    /\ ComboDone /\ err \notin {"nil", "Canceled"}
    /\ calls[Len(calls)].fn = "up"

C10_DownPart ==
    FailedDown =>
        LET n == Len(calls)
        IN  /\ n <= Len(kk)
            /\ err = calls[n].err
            /\ \A i \in 1..n : calls[i].fn = "down" /\ calls[i].arg = Str(kk[i])
            /\ \A i \in 1..(n - 1) : calls[i].err = "nil" /\ StillHeld(calls[i])

\* C10 as stated: after a failed down of segment i no later down and no up
\* is called and segments 1..i-1 stay pressed with their modifier bits set;
\* after a failed up no up is called for the segments not yet released and
\* the keys of those segments stay pressed.
C10_Original ==
    /\ C10_DownPart
    /\ FailedUp =>
           LET n == Len(kk)
               ups == Len(calls) - n
           IN  /\ ups >= 1
               /\ err = calls[Len(calls)].err
               /\ \A i \in 1..n : calls[i].fn = "down"
               /\ \A i \in 1..ups : calls[n + i].fn = "up" /\ calls[n + i].arg = Str(kk[n + 1 - i])
               /\ \A i \in 1..(n - ups) : calls[i].cmd.keyCode \in pressedKeys

\* C10 as amended: the same, but after a failed up the key of a segment not
\* yet released stays pressed unless an up already called, the failed one
\* included, was for the same key code.
C10_PartialFailure ==
    /\ C10_DownPart
    /\ FailedUp =>
           LET n == Len(kk)
               ups == Len(calls) - n
           IN  /\ ups >= 1
               /\ err = calls[Len(calls)].err
               /\ \A i \in 1..n : calls[i].fn = "down"
               /\ \A i \in 1..ups : calls[n + i].fn = "up" /\ calls[n + i].arg = Str(kk[n + 1 - i])
               /\ \A i \in 1..(n - ups) :
                      \/ calls[i].cmd.keyCode \in pressedKeys
                      \/ \E j \in 1..ups : calls[n + j].cmd.keyCode = calls[i].cmd.keyCode

\* the down of the second segment failed with Shift pressed before it
C10_Witness ==
    /\ FailedDown
    /\ Len(calls) = 2
    /\ calls[1].arg = "Shift"
    /\ HasBit(modifiers, ModifierKeyShift)

(***************************************************************************)
(* waitForEvent: vocabulary                                                *)
(***************************************************************************)
\* the event satisfies the wait: its type is listed and the predicate, when
\* one is given, accepts its payload
Satisfies(ev) ==
    /\ ev.typ \in waitEvents
    /\ predicateFn.nil \/ ev.data \in predicateFn.accepts

\* no event the listener received satisfies the wait
NoSatisfying == \A i \in 1..Len(published) : ~Satisfies(published[i])

\* the position in published of the first event that satisfies the wait
FirstSatisfying ==
    CHOOSE i \in 1..Len(published) :
        /\ Satisfies(published[i])
        /\ \A j \in 1..(i - 1) : ~Satisfies(published[j])

WaitReturned == wpc = "returned"

\* C11: when the caller's context is not cancelled and no event satisfying
\* the wait was published, waitForEvent returns TimedOut; an event of a
\* listed type that the predicate rejects does not end the wait.
C11_TimedOutWithoutEvent ==
    (WaitReturned /\ ~ctxDone /\ NoSatisfying) => werr = "TimedOut"

\* what the code does give: TimedOut when no event of a listed type at all
\* was published
C11_NoListedEvent ==
    (/\ WaitReturned /\ ~ctxDone
     /\ \A i \in 1..Len(published) : published[i].typ \notin waitEvents)
        => (werr = "TimedOut" /\ wval = Nil)

\* C12: when waitForEvent returns by receiving the event the
\* listener sent, it returns no error and the payload of the first event
\* that satisfies the wait, with or without a predicate.
C12_FirstPayload ==
    (WaitReturned /\ wcase = "ch" /\ ~NoSatisfying)
        => (werr = "nil" /\ wval = published[FirstSatisfying].data)

\* what the code does give: no error and, with a predicate, the payload of
\* the first event that satisfies the wait, without a predicate the nil
\* value; the listener received no event after that one
C12_FirstEvent ==
    (WaitReturned /\ wcase = "ch" /\ ~NoSatisfying)
        => /\ werr = "nil"
           /\ wval = IF predicateFn.nil THEN Nil
                     ELSE published[FirstSatisfying].data
           /\ FirstSatisfying = Len(published)

C14_Unsubscribed == WaitReturned => evCancelCtx

\* waitForEvent returned on timeout while the listener was still receiving
C14_Witness ==
    /\ WaitReturned /\ wcase = "timer"
    /\ lpc = "select"
    /\ evCancelCtx

\* C15: once waitForEvent has returned, the listener goroutine eventually
\* terminates.
C15_ListenerTerminates == (wpc = "returned") ~> (lpc = "done")

(***************************************************************************)
(* Aborted navigation                                                      *)
(***************************************************************************)
\* the handler was called for a frame whose pending document is the one named
AbortOfPending ==
    /\ fmpc \in {"emitted", "returned"}
    /\ fmCall.frameID \in Frames
    /\ fmCall.pending # Nil
    /\ fmCall.pending = fmCall.documentID

\* C16: the abort handler called with the id d of the frame's pending
\* document emits a NavigationEvent whose newDocument is that document, not
\* nil; when the handler has returned the frame's pendingDocument is nil;
\* no NavigationEvent emitted has a nil newDocument.
C16_AbortedNavigation ==
    /\ \A i \in 1..Len(navEvents) : navEvents[i].newDocument # Nil
    /\ AbortOfPending =>
           /\ navEvents # <<>>
           /\ navEvents[Len(navEvents)] =
                  NavigationEvent(fmCall.frameID, fmCall.documentID, fmCall.errorText)
           /\ fmpc = "returned" => pendingDocument[fmCall.frameID] = Nil

\* the case of the test: frame "42" with pending document "42", aborted
C16_Witness ==
    /\ AbortOfPending
    /\ fmpc = "returned"
    /\ fmCall.frameID = "42" /\ fmCall.documentID = "42"
    /\ navEvents[Len(navEvents)].newDocument = "42"
    /\ pendingDocument["42"] = Nil

(***************************************************************************)
(* k6Throw                                                                 *)
(***************************************************************************)
\* C17: however many flows call k6Throw, at the same time or one after the
\* other, the kill of the browser process is executed at most once.
C17_KillAtMostOnce == kills <= 1

\* what holds: at most one kill where k6Throw goes through k6ThrowOnce
C17_WithOnce == helpersRevision = 1 => kills <= 1

\* two calls went through k6ThrowOnce and one kill was executed
C17_WithOnceWitness ==
    /\ helpersRevision = 1
    /\ throwCalls >= 2
    /\ kills = 1
    /\ \E f \in Flows : tpc[f] = "returned"

(***************************************************************************)
(* convertArgument                                                         *)
(***************************************************************************)
Converting(type) == cpc = "done" /\ gojaArg.type = type

Unserializable(text) == CallArgument("", text, "")

PlainValue(json) == CallArgument(json, "", "")

\* C18: convertArgument of a float64 returns UnserializableValue "NaN" for
\* NaN, "Infinity" for plus infinity, "-Infinity" for minus infinity and
\* "-0" for minus zero, with no value, no objectId and no error.
C18_FloatSpecials ==
    Converting("float64") =>
        /\ gojaArg.f = NaN => callArgument = Unserializable("NaN")
        /\ gojaArg.f = PosInf => callArgument = Unserializable("Infinity")
        /\ gojaArg.f = NegInf => callArgument = Unserializable("-Infinity")
        /\ gojaArg.f = NegZero => callArgument = Unserializable("-0")
        /\ cerr = "nil"

\* minus zero was converted
C18_Witness ==
    /\ Converting("float64")
    /\ gojaArg.f = NegZero
    /\ callArgument.unserializableValue = "-0"
    /\ callArgument.value = ""

\* the numerals of the int64 arguments that are greater than 2147483647
AboveMaxInt32 == {"2147483648", "2147500000", "9007199254740"}

\* C19: convertArgument of an integer i returns UnserializableValue of the
\* decimal digits of i followed by "n" if and only if i > 2147483647; every
\* other integer is returned as the plain value of its decimal numeral.
C19_Int64 ==
    \A c \in Int64Cases :
        (Converting("int64") /\ gojaArg.i = c.i) =>
            /\ cerr = "nil"
            /\ callArgument = IF c.decimal \in AboveMaxInt32
                              THEN Unserializable(c.decimal \o "n")
                              ELSE PlainValue(c.decimal)

\* 2147483648 was converted
C19_Witness ==
    /\ Converting("int64")
    /\ gojaArg.i = Int64(FALSE, 21474, 83648)
    /\ callArgument = Unserializable("2147483648n")

\* C20: for a handle of another execution context the result is
\* WrongExecutionContext, disposed or not; for a disposed handle of the
\* calling context it is HandleDisposed; no call argument is produced in
\* either case, and the handle is left as it was.
C20_Handle ==
    (cpc = "done" /\ IsHandle(gojaArg)) =>
        LET h == gojaArg.handle
        IN  /\ h.execCtx # execCtx =>
                   (cerr = "WrongExecutionContext" /\ callArgument = NoCallArgument)
            /\ (h.execCtx = execCtx /\ h.disposed) =>
                   (cerr = "JSHandleDisposed" /\ callArgument = NoCallArgument)
            /\ objHandle = h

\* a disposed handle of another context was converted
C20_Witness ==
    /\ cpc = "done" /\ IsHandle(gojaArg)
    /\ gojaArg.handle.execCtx # execCtx
    /\ gojaArg.handle.disposed
    /\ cerr = "WrongExecutionContext"

(***************************************************************************)
(* C21                                                                     *)
(***************************************************************************)
\* the fields of a call argument that are populated
Populated(ca) ==
    {n \in {"value", "unserializableValue", "objectID"} : ca[n] # ""}

\* the handle argument is live and of the calling context
LiveHandle ==
    /\ IsHandle(gojaArg)
    /\ gojaArg.handle.execCtx = execCtx
    /\ ~gojaArg.handle.disposed

\* the choice for a live handle: the unserializable value if there is one,
\* else the value if there is no object id, else the object id
C21_HandleChoice ==
    (cpc = "done" /\ LiveHandle) =>
        LET ro == gojaArg.handle.remoteObject
        IN  /\ cerr = "nil"
            /\ callArgument =
                   IF ro.unserializableValue # "" THEN Unserializable(ro.unserializableValue)
                   ELSE IF ro.objectID = "" THEN PlainValue(ro.value)
                   ELSE CallArgument("", "", ro.objectID)

FloatNumeral(f) ==
    CASE f = PosZero -> "0"
      [] f = Float64("finite", FALSE, 15) -> "1.5"
      [] f = Float64("finite", TRUE, 25) -> "-2.5"
      [] f = Float64("finite", FALSE, 1) -> "0.1"

\* C24: a float64 argument that is not minus zero, an infinity or NaN, plus
\* zero included, is returned as the plain value of its JSON numeral, with
\* no unserializableValue.
C24_PlainFloat ==
    (Converting("float64") /\ gojaArg.f \notin {NegZero, PosInf, NegInf, NaN}) =>
        (cerr = "nil" /\ callArgument = PlainValue(FloatNumeral(gojaArg.f)))

\* what holds: the same for every such argument but plus zero
C24_NonZero ==
    (Converting("float64") /\ gojaArg.f \notin {NegZero, PosZero, PosInf, NegInf, NaN}) =>
        (cerr = "nil" /\ callArgument = PlainValue(FloatNumeral(gojaArg.f)))

(***************************************************************************)
(* C22                                                                     *)
(***************************************************************************)
\* the code of the layout entry a valid token stands for
CanonicalCode(tok) ==
    CHOOSE c \in DOMAIN layoutKeys :
        \/ c = tok
        \/ layoutKeys[c].Key = tok
        \/ layoutKeys[c].ShiftKey = tok

\* C22: the code of every dispatched key-down and key-up is the code of the
\* layout entry that was found, also when the token matched by its value
\* ("a") or by its shift value ("@").
C22_CanonicalCode ==
    [][(NewCall /\ LastCall.sent /\ LastCall.fn \in {"down", "up"}) =>
          LastCall.cmd.code = CanonicalCode(LastCall.arg)]_vars

\* what holds: the earlier revision dispatches the code of the entry, the
\* later one the token it was called with
C22_PerRevision ==
    [][(NewCall /\ LastCall.sent /\ LastCall.fn \in {"down", "up"}) =>
          LastCall.cmd.code =
              IF revision = 1 THEN CanonicalCode(LastCall.arg) ELSE LastCall.arg]_vars

(***************************************************************************)
(* C23                                                                     *)
(***************************************************************************)
\* a key-down of a token found only in the shift layer leaves the modifier
\* state alone, dispatches it as the mask, and resolves Key to the token
ShiftLayerDown(text) ==
    /\ LastCall.cmd.key = LastCall.arg
    /\ LastCall.cmd.text = text
    /\ modifiers' = modifiers
    /\ LastCall.cmd.modifiers = modifiers

\* C23 as stated: a key-down of a token found only in the shift layer ("@")
\* has Key and Text equal to the shift value whether or not Shift is held,
\* and the modifier state, and so the Shift bit of the dispatched mask, is
\* after the call what it was before.
C23_Original ==
    [][(NewCall /\ LastCall.sent /\ LastCall.fn = "down"
        /\ OnlyInShiftLayer(LastCall.arg)) =>
          ShiftLayerDown(LastCall.arg)]_vars

\* C23 as amended: the same, but the Text is the shift value only while
\* none of Alt, Control, Meta is held, and empty while one of them is.
C23_ShiftLayer ==
    [][(NewCall /\ LastCall.sent /\ LastCall.fn = "down"
        /\ OnlyInShiftLayer(LastCall.arg)) =>
          ShiftLayerDown(IF NonShiftHeld(modifiers) THEN "" ELSE LastCall.arg)]_vars

\* "@" went down while Shift was held and nothing else
C23_Witness ==
    \E i \in 1..Len(calls) :
        /\ IsDownCmd(calls[i]) /\ calls[i].arg = "@"
        /\ calls[i].cmd.modifiers = ModifierKeyShift
        /\ calls[i].cmd.key = "@" /\ calls[i].cmd.text = "@"

(***************************************************************************)
(* C25                                                                     *)
(***************************************************************************)
\* C25: a comboPress whose context is cancelled while it is in its delay
\* returns the cancellation error, dispatches nothing and leaves the
\* modifier state and the pressed keys as they were; the delay is entered
\* only when comboPress is called, before any key-down, whatever the
\* number of segments.
C25_ComboCancelled ==
    [][/\ (pc = "comboDelay" /\ cancelled) =>
              /\ pc' = "done" /\ err' = "Canceled"
              /\ calls' = <<>>
              /\ UNCHANGED <<modifiers, pressedKeys>>
       /\ (pc' = "comboDelay") => (pc \in {"idle", "comboDelay"} /\ calls' = <<>>)
       /\ (op = "comboPress" /\ NewCall) => pc # "comboDelay"]_vars

\* a combo of two segments, called on a keyboard with keys held, returned
\* the cancellation error
C25_Witness ==
    /\ ComboDone /\ err = "Canceled" /\ cancelled
    /\ Len(split(keys)) = 2
    /\ ~fresh /\ pressedKeys # {} /\ calls = <<>>

(***************************************************************************)
(* C26                                                                     *)
(***************************************************************************)
\* C26: a press or a typ whose context is cancelled while it is in a delay
\* returns the cancellation error and dispatches no further key-down,
\* key-up or insertText.
C26_TypCancelled ==
    [][(pc \in {"typDelay", "pressDelay"} /\ cancelled) =>
          (pc' = "done" /\ err' = "Canceled" /\ calls' = calls)]_vars

\* what holds: the delay ends with the next step of the same iteration,
\* cancelled or not
C26_GoesOn ==
    [][(pc \in {"typDelay", "pressDelay"} /\ pc' # pc) =>
          /\ pc' = IF pc = "typDelay" THEN "typChar" ELSE "pressDown"
          /\ err' = err /\ idx' = idx]_vars

(***************************************************************************)
(* C28                                                                     *)
(***************************************************************************)
\* C28: no call of k6Throw returns normally to the flow that made it, the
\* second and later calls included: each ends in the script-level error (or
\* the panic of a missing runtime).
C28_NeverReturns == \A f \in Flows : tpc[f] # "returned"

\* what holds: no call returns where k6Throw does not go through k6ThrowOnce
C28_WithoutOnce ==
    helpersRevision = 2 => \A f \in Flows : tpc[f] # "returned"

(***************************************************************************)
(* C29                                                                     *)
(***************************************************************************)
NumpadPlusShift ==
    <<"N", "u", "m", "p", "a", "d", "1", "+", "S", "h", "i", "f", "t">>

\* neither key code of the entry is pressed, and its modifier bit is clear
Released(entry) ==
    /\ pressedKeys \cap {entry.KeyCode, entry.ShiftKeyCode} = {}
    /\ BitAnd(modifiers, modifierBitFromKeyName(entry.Key)) = 0

\* C29: when a comboPress has returned without error, whatever the keyboard
\* state it was called in, no key of its segments is in the pressed keys
\* and no modifier bit of its segments is set; called on a fresh keyboard
\* it leaves a fresh keyboard; the key-up of a segment carries the key code
\* of its key-down, whatever Shift was at either.
C29_ComboReleased ==
    (ComboDone /\ err = "nil") =>
        /\ \A i \in 1..Len(kk) : Released(EntryOf(Str(kk[i])))
        /\ fresh => IsFresh
        /\ Len(calls) = 2 * Len(kk)
        /\ \A i \in 1..Len(kk) :
               calls[i].cmd.keyCode = calls[2 * Len(kk) + 1 - i].cmd.keyCode

\* "Numpad1+Shift" was pressed while Shift was held: Numpad1 went down with
\* Shift and up without it
C29_Witness ==
    /\ ComboDone /\ err = "nil" /\ keys = NumpadPlusShift
    /\ HasBit(calls[1].cmd.modifiers, ModifierKeyShift)
    /\ BitAnd(calls[4].cmd.modifiers, ModifierKeyShift) = 0
    /\ calls[1].cmd.keyCode = 35 /\ calls[4].cmd.keyCode = 35
    /\ 35 \notin pressedKeys

(***************************************************************************)
(* C27                                                                     *)
(***************************************************************************)
\* callApiWithTimeout returned after its select statement took case c
ApiReturned(c) == apc = "returned" /\ acase = c

\* C27: callApiWithTimeout returns TimedOut exactly when the timeout, which
\* is positive, passed before fn delivered; a result or an error that fn
\* delivered first is returned as it was sent; the cancellation of the
\* caller's ctx is not returned as TimedOut.
C27_TimedOut ==
    /\ apc = "returned" =>
           (aerr = "TimedOut" <=>
                (acase = "done" /\ apiTimeout > 0 /\ apiCtxErr = "DeadlineExceeded"))
    /\ ApiReturned("result") => (aresult = delivery.val /\ aerr = "nil")
    /\ ApiReturned("err") => (aresult = Nil /\ aerr = delivery.val)
    /\ (ApiReturned("done") /\ ctxErr = "Canceled" /\ apiCtxErr = "Canceled") =>
           aerr # "TimedOut"

\* what holds: TimedOut is returned exactly when the select statement was
\* ended by the cancellation of the caller's ctx; a deadline that passed
\* first gives no result and no error; what fn delivered first is returned
\* as it was sent
C27_AsCoded ==
    /\ apc = "returned" =>
           (aerr = "TimedOut" <=> (acase = "done" /\ apiCtxErr = "Canceled"))
    /\ (ApiReturned("done") /\ apiCtxErr = "DeadlineExceeded") =>
           (aresult = Nil /\ aerr = "nil")
    /\ ApiReturned("result") => (aresult = delivery.val /\ aerr = "nil")
    /\ ApiReturned("err") => (aresult = Nil /\ aerr = delivery.val)

====
